---------------------------- MODULE Spec2Model ----------------------------
(***************************************************************************)
(* Model of the request-signing transport of mcp-sigv4-proxy:              *)
(*   internal/transport/transport.go  SigningRoundTripper.RoundTrip        *)
(*   internal/signer/v4.go            V4Signer.SignRequest                 *)
(*   internal/signer/v4a.go           V4aSigner.SignRequest                *)
(* of its configuration:                                                   *)
(*   internal/config/config.go        Config.Validate, LoadFromEnv, Load   *)
(* and of the start of the process:                                        *)
(*   main.go                          run, maskAccessKey                   *)
(*   internal/credentials             Provider.LoadCredentials             *)
(*   internal/proxy/proxy.go          New, Proxy.Run, setupForwarding      *)
(*                                                                         *)
(* Go strings are TLA+ strings (concatenation \o, substring by SubSeq);    *)
(* byte slices are sequences of numbers 0..255; an error value is the      *)
(* sequence of the messages of its Unwrap chain, outermost first.          *)
(***************************************************************************)
EXTENDS Integers, Sequences, FiniteSets, TLC

(***************************************************************************)
(* Bounds of the model.                                                    *)
(***************************************************************************)
\* longest request body, in bytes
MaxBodyLen == 2

\* longest access key that is masked, in characters
MaxKeyLen == 9

(***************************************************************************)
(* Strings.                                                                *)
(***************************************************************************)
\* strings.Contains(s, sub)
Contains(s, sub) ==
    \E i \in 1..(Len(s) - Len(sub) + 1) : SubSeq(s, i, i + Len(sub) - 1) = sub

LowerLetters == "abcdefghijklmnopqrstuvwxyz"

UpperLetters == "ABCDEFGHIJKLMNOPQRSTUVWXYZ"

\* strings.IndexByte(s, ch) + 1: the first place of ch in s, 0 when absent
IndexOf(s, ch) ==
    IF \E i \in 1..Len(s) : SubSeq(s, i, i) = ch
    THEN CHOOSE i \in 1..Len(s) :
             /\ SubSeq(s, i, i) = ch
             /\ \A j \in 1..(i - 1) : SubSeq(s, j, j) # ch
    ELSE 0

\* strings.ToLower(s), for the ASCII strings of the model
RECURSIVE ToLower(_)
ToLower(s) ==
    IF s = "" THEN ""
    ELSE LET ch == SubSeq(s, 1, 1)
             i  == IndexOf(UpperLetters, ch)
         IN  (IF i = 0 THEN ch ELSE SubSeq(LowerLetters, i, i))
                 \o ToLower(SubSeq(s, 2, Len(s)))

\* strings.Contains(strings.ToLower(s), sub), for a lower-case sub
ContainsFold(s, sub) ==
    \E i \in 1..(Len(s) - Len(sub) + 1) :
        ToLower(SubSeq(s, i, i + Len(sub) - 1)) = sub

\* strings.HasPrefix(s, prefix)
HasPrefix(s, prefix) ==
    Len(s) >= Len(prefix) /\ SubSeq(s, 1, Len(prefix)) = prefix

\* the characters of the strings that are turned into bytes by the model
Alphabet ==
    "0123456789abcdefghijklmnopqrstuvwxyzABCDEFGHIJKLMNOPQRSTUVWXYZ-/_.:;= ,"

\* the byte of a one-character string ([]byte(s)[i]), as its place in Alphabet
CharCode(ch) == CHOOSE i \in 1..Len(Alphabet) : SubSeq(Alphabet, i, i) = ch

\* []byte(s)
StrBytes(s) == [i \in 1..Len(s) |-> CharCode(SubSeq(s, i, i))]

(***************************************************************************)
(* crypto/sha256 and encoding/hex.                                         *)
(* Sum256 is a digest of two bytes computed by mixing the input bytes in   *)
(* a binary tree (the compression function of SHA-256 is not reproduced);  *)
(* the request bodies of the model get pairwise distinct digests.          *)
(***************************************************************************)
\* the digest of the bytes b[lo..hi], lo <= hi
RECURSIVE Mix(_, _, _)
Mix(b, lo, hi) ==
    IF lo = hi THEN (b[lo] * 131 + 17) % 65536
    ELSE LET mid == (lo + hi) \div 2
         IN  (Mix(b, lo, mid) * 33 + Mix(b, mid + 1, hi) * 7 + 1) % 65536

\* sha256.Sum256(b): a digest of two bytes
Sum256(b) ==
    LET h == IF b = << >> THEN 27183 ELSE Mix(b, 1, Len(b))
    IN  << h \div 256, h % 256 >>

HexDigits == "0123456789abcdef"

HexDigit(n) == SubSeq(HexDigits, n + 1, n + 1)

\* hex.EncodeToString(b): two lower-case hexadecimal digits per byte
RECURSIVE EncodeToString(_)
EncodeToString(b) ==
    IF b = << >> THEN ""
    ELSE HexDigit(Head(b) \div 16) \o HexDigit(Head(b) % 16)
             \o EncodeToString(Tail(b))

(***************************************************************************)
(* Errors: errors.New / fmt.Errorf.                                        *)
(***************************************************************************)
\* the nil error
NoErr == << >>

\* errors.New(msg), and fmt.Errorf without %w
NewError(msg) == << msg >>

\* fmt.Errorf(prefix + "%w" + suffix, err): the message embeds err.Error(),
\* and Unwrap returns err
Wrapf(prefix, err, suffix) == << prefix \o err[1] \o suffix >> \o err

\* err.Error()
ErrorMsg(err) == err[1]

\* errors.Is(err, target): target is some error of the Unwrap chain of err
ErrorsIs(err, target) ==
    \E i \in 1..Len(err) : SubSeq(err, i, Len(err)) = target

(***************************************************************************)
(* time.Time and the X-Amz-Date format of the SDK ("20060102T150405Z").    *)
(***************************************************************************)
\* no instant
NoTime == [year |-> 0, month |-> 0, day |-> 0, hour |-> 0, min |-> 0, sec |-> 0]

\* the instants time.Now() returns in the model
Times ==
    { [year |-> 2024, month |-> 1,  day |-> 1,  hour |-> 0,  min |-> 0,  sec |-> 0],
      [year |-> 2025, month |-> 12, day |-> 31, hour |-> 23, min |-> 59, sec |-> 7] }

DecDigit(n) == SubSeq("0123456789", n + 1, n + 1)

\* a number printed in decimal on exactly w digits, zero padded
RECURSIVE Pad(_, _)
Pad(n, w) == IF w = 0 THEN "" ELSE Pad(n \div 10, w - 1) \o DecDigit(n % 10)

\* t.Format("20060102"): the date of the credential scope
FormatShortDate(t) == Pad(t.year, 4) \o Pad(t.month, 2) \o Pad(t.day, 2)

\* FormatAmzDate that does not pad the numbers with zeros
FormatAmzDateNoPad(t) ==
    Pad(t.year, 4) \o Pad(t.month, IF t.month < 10 THEN 1 ELSE 2)
        \o Pad(t.day, IF t.day < 10 THEN 1 ELSE 2) \o "T"
        \o Pad(t.hour, IF t.hour < 10 THEN 1 ELSE 2)
        \o Pad(t.min, IF t.min < 10 THEN 1 ELSE 2)
        \o Pad(t.sec, IF t.sec < 10 THEN 1 ELSE 2) \o "Z"

\* t.Format("20060102T150405Z"): the value of X-Amz-Date
FormatAmzDate(t) ==
    FormatShortDate(t) \o "T" \o Pad(t.hour, 2) \o Pad(t.min, 2)
        \o Pad(t.sec, 2) \o "Z"

(***************************************************************************)
(* http.Header (map[string][]string): a function from the header names     *)
(* that are set to the sequence of their values.                           *)
(***************************************************************************)
NoHeader == [k \in {} |-> << >>]

\* h.Set(k, v): v becomes the only value of k
HeaderSet(h, k, v) ==
    [x \in (DOMAIN h) \cup {k} |-> IF x = k THEN << v >> ELSE h[x]]

\* h.Add(k, v): v is appended to the values of k
HeaderAdd(h, k, v) ==
    [x \in (DOMAIN h) \cup {k} |->
        IF x # k THEN h[x]
        ELSE IF k \in DOMAIN h THEN Append(h[k], v) ELSE << v >>]

\* h.Get(k): the first value of k, "" when the header is absent
HeaderGet(h, k) == IF k \in DOMAIN h THEN h[k][1] ELSE ""

\* h.Values(k): all the values of k
HeaderValues(h, k) == IF k \in DOMAIN h THEN h[k] ELSE << >>

(***************************************************************************)
(* Request bodies (io.ReadCloser).  A body is nil, the stream the caller   *)
(* supplied, or a buffer io.NopCloser(bytes.NewReader(data)) created by    *)
(* RoundTrip.  A stream delivers data[pos+1..] and then io.EOF, or, when   *)
(* fails is set, a read error in place of io.EOF.                          *)
(***************************************************************************)
NilBody == [kind |-> "nil", data |-> << >>, pos |-> 0, fails |-> FALSE, closed |-> 0]

\* the body stream handed in by the caller
CallerBody(data, fails) ==
    [kind |-> "caller", data |-> data, pos |-> 0, fails |-> fails, closed |-> 0]

\* io.NopCloser(bytes.NewReader(data))
NopCloserReader(data) ==
    [kind |-> "buffer", data |-> data, pos |-> 0, fails |-> FALSE, closed |-> 0]

\* the bytes a reader still delivers
Remaining(b) == SubSeq(b.data, b.pos + 1, Len(b.data))

\* the error of errorReader.Read in the tests, and of any failing stream
ReadError == NewError("read error")

\* io.ReadAll(b): the bytes read, the error, and the reader afterwards
ReadAll(b) ==
    [data   |-> Remaining(b),
     err    |-> IF b.fails THEN ReadError ELSE NoErr,
     reader |-> [b EXCEPT !.pos = Len(b.data)]]

\* b.Close(); closing an io.NopCloser is a no-operation that is still counted
Close(b) == [b EXCEPT !.closed = @ + 1]

(***************************************************************************)
(* The Signer interface and its two implementations.                       *)
(* A signer is [variant, Region, Service, AccessKeyID, SecretAccessKey,    *)
(* SessionToken]; variant "v4" is V4Signer and "v4a" is V4aSigner.         *)
(* SignRequest returns the error and the request as the call leaves it.    *)
(***************************************************************************)
Regions == {"", "us-east-1"}

Services == {"", "execute-api"}

AccessKeyIDs == {"", "AKIAEXAMPLE"}

SecretAccessKeys == {"", "wJalrXUt"}

SessionTokens == {"", "TOKEN123"}

Signers ==
    [variant : {"v4", "v4a"}, Region : Regions, Service : Services,
     AccessKeyID : AccessKeyIDs, SecretAccessKey : SecretAccessKeys,
     SessionToken : SessionTokens]

\* the canonical header names of the model, in the order of their lower-case
\* forms, with those forms
HeaderTable ==
    << << "Authorization",        "authorization" >>,
       << "Content-Type",         "content-type" >>,
       << "Host",                 "host" >>,
       << "X-Amz-Date",           "x-amz-date" >>,
       << "X-Amz-Security-Token", "x-amz-security-token" >>,
       << "X-Custom-Header",      "x-custom-header" >> >>

\* the ';'-joined lower-case names of the headers that enter the signature:
\* Host and every header of the request but Authorization
RECURSIVE SignedHeaderNames(_, _)
SignedHeaderNames(h, i) ==
    IF i > Len(HeaderTable) THEN ""
    ELSE LET name == HeaderTable[i][1]
             rest == SignedHeaderNames(h, i + 1)
             in   == (name = "Host" \/ name \in DOMAIN h) /\ name # "Authorization"
         IN  IF ~in THEN rest
             ELSE IF rest = "" THEN HeaderTable[i][2]
             ELSE HeaderTable[i][2] \o ";" \o rest

\* the signature: hex of a keyed digest of the string to sign, which binds
\* the timestamp, the credential scope, the request line, the signed header
\* names and the payload hash
Signature(secret, stringToSign) ==
    EncodeToString(Sum256(StrBytes("AWS4" \o secret) \o StrBytes(stringToSign)))

\* SignHTTP that sets X-Amz-Security-Token also without a session token
SignHTTPAlwaysToken(creds, req, payloadHash, service, region, now) ==
    LET amzDate == FormatAmzDate(now)
        scope   == FormatShortDate(now) \o "/" \o region \o "/" \o service
                       \o "/aws4_request"
        h1      == HeaderSet(req.Header, "X-Amz-Date", amzDate)
        h2      == HeaderSet(h1, "X-Amz-Security-Token", creds.SessionToken)
        names   == SignedHeaderNames(h2, 1)
        toSign  == amzDate \o "/" \o scope \o "/" \o req.Method \o "/"
                       \o req.URL.Host \o "/" \o names \o "/" \o payloadHash
        auth    == "AWS4-HMAC-SHA256 Credential=" \o creds.AccessKeyID \o "/"
                       \o scope \o ", SignedHeaders=" \o names
                       \o ", Signature=" \o Signature(creds.SecretAccessKey, toSign)
    IN  [req EXCEPT !.Header = HeaderSet(h2, "Authorization", auth)]

\* v4.Signer.SignHTTP of the AWS SDK: sets X-Amz-Date, X-Amz-Security-Token
\* (only with a session token) and Authorization on the request
SignHTTP(creds, req, payloadHash, service, region, now) ==
    LET amzDate == FormatAmzDate(now)
        scope   == FormatShortDate(now) \o "/" \o region \o "/" \o service
                       \o "/aws4_request"
        h1      == HeaderSet(req.Header, "X-Amz-Date", amzDate)
        h2      == IF creds.SessionToken # ""
                   THEN HeaderSet(h1, "X-Amz-Security-Token", creds.SessionToken)
                   ELSE h1
        names   == SignedHeaderNames(h2, 1)
        toSign  == amzDate \o "/" \o scope \o "/" \o req.Method \o "/"
                       \o req.URL.Host \o "/" \o names \o "/" \o payloadHash
        auth    == "AWS4-HMAC-SHA256 Credential=" \o creds.AccessKeyID \o "/"
                       \o scope \o ", SignedHeaders=" \o names
                       \o ", Signature=" \o Signature(creds.SecretAccessKey, toSign)
    IN  [req EXCEPT !.Header = HeaderSet(h2, "Authorization", auth)]

\* the error the SDK reports when SignHTTP fails (the branch of lines 54-56);
\* the request is taken to be as it was before the call
SDKError == NewError("sdk: signing failed")

\* V4SignRequest that asks for one of the two keys only
V4SignRequestOneKey(s, req, payloadHash, now, sdkFails) ==
    IF s.Region = ""
    THEN [err |-> NewError("region is required for SigV4 signing"), req |-> req]
    ELSE IF s.Service = ""
    THEN [err |-> NewError("service name is required for SigV4 signing"), req |-> req]
    ELSE IF s.AccessKeyID = "" /\ s.SecretAccessKey = ""
    THEN [err |-> NewError("AWS credentials are required for SigV4 signing"), req |-> req]
    ELSE IF sdkFails
    THEN [err |-> Wrapf("failed to sign request with SigV4: ", SDKError, ""), req |-> req]
    ELSE [err |-> NoErr,
          req |-> SignHTTP(s, req, payloadHash, s.Service, s.Region, now)]

\* V4SignRequest that signs the request before it checks the configuration
V4SignRequestSignsFirst(s, req, payloadHash, now, sdkFails) ==
    LET signed == SignHTTP(s, req, payloadHash, s.Service, s.Region, now)
    IN  IF s.Region = ""
        THEN [err |-> NewError("region is required for SigV4 signing"), req |-> signed]
        ELSE IF s.Service = ""
        THEN [err |-> NewError("service name is required for SigV4 signing"), req |-> signed]
        ELSE IF s.AccessKeyID = "" \/ s.SecretAccessKey = ""
        THEN [err |-> NewError("AWS credentials are required for SigV4 signing"), req |-> signed]
        ELSE IF sdkFails
        THEN [err |-> Wrapf("failed to sign request with SigV4: ", SDKError, ""), req |-> req]
        ELSE [err |-> NoErr, req |-> signed]

\* V4SignRequest that asks for a session token as well
V4SignRequestNeedsToken(s, req, payloadHash, now, sdkFails) ==
    IF s.Region = ""
    THEN [err |-> NewError("region is required for SigV4 signing"), req |-> req]
    ELSE IF s.Service = ""
    THEN [err |-> NewError("service name is required for SigV4 signing"), req |-> req]
    ELSE IF s.AccessKeyID = "" \/ s.SecretAccessKey = "" \/ s.SessionToken = ""
    THEN [err |-> NewError("AWS credentials are required for SigV4 signing"), req |-> req]
    ELSE IF sdkFails
    THEN [err |-> Wrapf("failed to sign request with SigV4: ", SDKError, ""), req |-> req]
    ELSE [err |-> NoErr,
          req |-> SignHTTP(s, req, payloadHash, s.Service, s.Region, now)]

V4SignRequest(s, req, payloadHash, now, sdkFails) ==
    IF s.Region = ""
    THEN [err |-> NewError("region is required for SigV4 signing"), req |-> req]
    ELSE IF s.Service = ""
    THEN [err |-> NewError("service name is required for SigV4 signing"), req |-> req]
    ELSE IF s.AccessKeyID = "" \/ s.SecretAccessKey = ""
    THEN [err |-> NewError("AWS credentials are required for SigV4 signing"), req |-> req]
    ELSE IF sdkFails
    THEN [err |-> Wrapf("failed to sign request with SigV4: ", SDKError, ""), req |-> req]
    ELSE [err |-> NoErr,
          req |-> SignHTTP(s, req, payloadHash, s.Service, s.Region, now)]

\* var ErrV4aNotAvailable
ErrV4aNotAvailable ==
    NewError("SigV4a signing is not available: AWS SDK v2 keeps v4a signer in internal package")

\* V4aSignRequest that checks the service name before the region
V4aSignRequestServiceFirst(s, req, payloadHash) ==
    IF s.Service = ""
    THEN [err |-> NewError("service name is required for SigV4a signing"), req |-> req]
    ELSE IF s.Region = ""
    THEN [err |-> NewError("region is required for SigV4a signing"), req |-> req]
    ELSE IF s.AccessKeyID = "" \/ s.SecretAccessKey = ""
    THEN [err |-> NewError("AWS credentials are required for SigV4a signing"), req |-> req]
    ELSE [err |-> Wrapf("", ErrV4aNotAvailable,
                        ": see https://github.com/aws/aws-sdk-go-v2/issues/1935 for status"),
          req |-> req]

\* V4aSignRequest that formats the sentinel with %v: message kept, cause lost
V4aSignRequestNoSentinel(s, req, payloadHash) ==
    IF s.Region = ""
    THEN [err |-> NewError("region is required for SigV4a signing"), req |-> req]
    ELSE IF s.Service = ""
    THEN [err |-> NewError("service name is required for SigV4a signing"), req |-> req]
    ELSE IF s.AccessKeyID = "" \/ s.SecretAccessKey = ""
    THEN [err |-> NewError("AWS credentials are required for SigV4a signing"), req |-> req]
    ELSE [err |-> NewError(ErrorMsg(ErrV4aNotAvailable)
                      \o ": see https://github.com/aws/aws-sdk-go-v2/issues/1935 for status"),
          req |-> req]

V4aSignRequest(s, req, payloadHash) ==
    IF s.Region = ""
    THEN [err |-> NewError("region is required for SigV4a signing"), req |-> req]
    ELSE IF s.Service = ""
    THEN [err |-> NewError("service name is required for SigV4a signing"), req |-> req]
    ELSE IF s.AccessKeyID = "" \/ s.SecretAccessKey = ""
    THEN [err |-> NewError("AWS credentials are required for SigV4a signing"), req |-> req]
    ELSE [err |-> Wrapf("", ErrV4aNotAvailable,
                        ": see https://github.com/aws/aws-sdk-go-v2/issues/1935 for status"),
          req |-> req]

\* SignRequest that signs with the single-region signer whatever the variant
SignRequestV4Only(s, req, payloadHash, now, sdkFails) ==
    V4SignRequest(s, req, payloadHash, now, sdkFails)

\* rt.Signer.SignRequest(ctx, req, payloadHash): dispatch on the dynamic type
SignRequest(s, req, payloadHash, now, sdkFails) ==
    IF s.variant = "v4"
    THEN V4SignRequest(s, req, payloadHash, now, sdkFails)
    ELSE V4aSignRequest(s, req, payloadHash)

(***************************************************************************)
(* The inputs of RoundTrip.                                                *)
(***************************************************************************)
\* the bytes that occur in request bodies
BodyBytes == {97, 255}

\* the request bodies B
Bodies == UNION { [1..n -> BodyBytes] : n \in 0..MaxBodyLen }

Hosts == {"example.com", "localhost:59999"}

\* the header maps a caller sets
CallerHeaders ==
    { NoHeader, [k \in {"Content-Type"} |-> << "application/json" >>] }

\* no static extra headers (rt.Headers is empty)
NoExtraHeaders == [k \in {} |-> ""]

\* the maps of static extra headers a transport is configured with: none, or
\* one header the callers do not set together with one they do set
ExtraHeaders ==
    { NoExtraHeaders,
      [k \in {"Content-Type", "X-Custom-Header"} |->
          IF k = "Content-Type" THEN "text/plain" ELSE "value"] }

\* the merge of the static extra headers into the header of the request:
\* every configured pair is added, and no value the caller has set is
\* removed or replaced
RECURSIVE MergeHeaders(_, _)
MergeHeaders(h, extra) ==
    IF DOMAIN extra = {} THEN h
    ELSE LET k    == CHOOSE x \in DOMAIN extra : TRUE
             rest == [x \in (DOMAIN extra) \ {k} |-> extra[x]]
         IN  MergeHeaders(HeaderAdd(h, k, extra[k]), rest)

\* a request that is not there
NoRequest ==
    [Method |-> "", URL |-> [Host |-> ""], Header |-> NoHeader,
     Body |-> "nil", ContentLength |-> 0]

\* http.NewRequest(method, url, nil): no body
BodilessRequests ==
    [Method : {"GET", "POST"}, URL : [Host : Hosts], Header : CallerHeaders,
     Body : {"nil"}, ContentLength : {0}]

\* http.NewRequest(method, url, reader): Body is the caller's stream, and
\* ContentLength is the length when the reader's type tells it, else unknown
\* (0 for a reader type NewRequest does not know, -1 when the caller says so)
RequestsWithBody(data) ==
    [Method : {"POST"}, URL : [Host : Hosts], Header : CallerHeaders,
     Body : {"caller"}, ContentLength : {Len(data), -1}]

\* http.Response values of the underlying transport
NoResponse == [StatusCode |-> 0, Body |-> << >>]

Responses ==
    [StatusCode : {200, 401, 404, 500, 503}, Body : {<< >>, << 123, 125 >>}]

\* errors of the underlying transport (DNS, connection, TLS, timeout)
TransportErrors ==
    { NewError("dial tcp: connection refused"),
      NewError("context deadline exceeded") }

\* what transport.RoundTrip(req) can return
TransportOutcomes ==
    [resp : Responses, err : {NoErr}] \cup [resp : {NoResponse}, err : TransportErrors]

(***************************************************************************)
(* internal/config: Config and Config.Validate, with url.Parse of net/url  *)
(* as far as the scheme of the URL goes (the errors of a malformed host,   *)
(* port or escape are not reproduced; the URLs of the model have none).    *)
(***************************************************************************)
Digits == "0123456789"

\* getScheme of net/url, from the character at place i on: the scheme is what
\* stands before the first ':' when only letters, digits, '+', '-' and '.'
\* stand there and the first character is a letter
RECURSIVE getScheme(_, _)
getScheme(rawURL, i) ==
    IF i > Len(rawURL)
    THEN [scheme |-> "", path |-> rawURL, err |-> NoErr]
    ELSE LET c == SubSeq(rawURL, i, i)
         IN  IF IndexOf(LowerLetters, c) > 0 \/ IndexOf(UpperLetters, c) > 0
             THEN getScheme(rawURL, i + 1)
             ELSE IF IndexOf(Digits, c) > 0 \/ c \in {"+", "-", "."}
             THEN IF i = 1
                  THEN [scheme |-> "", path |-> rawURL, err |-> NoErr]
                  ELSE getScheme(rawURL, i + 1)
             ELSE IF c = ":"
             THEN IF i = 1
                  THEN [scheme |-> "", path |-> "",
                        err |-> NewError("missing protocol scheme")]
                  ELSE [scheme |-> SubSeq(rawURL, 1, i - 1),
                        path   |-> SubSeq(rawURL, i + 1, Len(rawURL)),
                        err    |-> NoErr]
             ELSE [scheme |-> "", path |-> rawURL, err |-> NoErr]

\* url.Parse(rawURL): the lower-cased scheme, or the error, which is wrapped
\* in a *url.Error ("parse %q: %s")
URLParse(rawURL) ==
    LET g       == getScheme(rawURL, 1)
        slash   == IndexOf(g.path, "/")
        segment == IF slash = 0 THEN g.path ELSE SubSeq(g.path, 1, slash - 1)
        wrap(e) == Wrapf("parse \"" \o rawURL \o "\": ", e, "")
    IN  IF g.err # NoErr
        THEN [Scheme |-> "", err |-> wrap(g.err)]
        ELSE IF g.scheme = "" /\ ~HasPrefix(g.path, "/") /\ Contains(segment, ":")
        THEN [Scheme |-> "",
              err |-> wrap(NewError("first path segment in URL cannot contain colon"))]
        ELSE [Scheme |-> ToLower(g.scheme), err |-> NoErr]

\* the messages of errs joined by line feeds
RECURSIVE JoinMessages(_)
JoinMessages(errs) ==
    IF Len(errs) = 1 THEN ErrorMsg(errs[1])
    ELSE ErrorMsg(errs[1]) \o "\n" \o JoinMessages(Tail(errs))

\* errors.Join(errs...): nil for no errors, else an error whose message is the
\* messages of errs, one per line (its Unwrap() []error is not kept)
Join(errs) == IF errs = << >> THEN NoErr ELSE NewError(JoinMessages(errs))

\* the values of Config.TargetURL
TargetURLs ==
    { "", "http://localhost:8080", "https://example.com", "HTTPS://example.com",
      "ftp://example.com", "not-a-url", "://example.com", "1http://example.com" }

\* the values of Config.SignatureVersion
SignatureVersions == {"", "v4", "v4a", "v5"}

\* a Config before anything was loaded into it
NoConfig ==
    [TargetURL |-> "", Region |-> "", ServiceName |-> "",
     SignatureVersion |-> "", Profile |-> "",
     Headers |-> "", Timeout |-> 0, EnableSSE |-> FALSE]

\* the Config values Validate is called on
Configs ==
    [TargetURL : TargetURLs, Region : Regions, ServiceName : Services,
     SignatureVersion : SignatureVersions, Profile : {"default"},
     Headers : {""}, Timeout : {0}, EnableSSE : {FALSE}]

\* ValidateErrors that takes a URL of any scheme
ValidateErrorsAnyScheme(c) ==
    LET parsedURL == URLParse(c.TargetURL)
    IN  (IF c.TargetURL = ""
         THEN << NewError("target URL is required (set MCP_TARGET_URL or --target-url)") >>
         ELSE IF parsedURL.err # NoErr
         THEN << Wrapf("invalid target URL: ", parsedURL.err, "") >>
         ELSE IF parsedURL.Scheme = ""
         THEN << NewError("target URL must use http or https scheme, got: "
                              \o parsedURL.Scheme) >>
         ELSE << >>)
        \o (IF c.Region = ""
            THEN << NewError("region is required (set AWS_REGION or --region)") >>
            ELSE << >>)
        \o (IF c.ServiceName = ""
            THEN << NewError("service name is required (set AWS_SERVICE_NAME or --service-name)") >>
            ELSE << >>)
        \o (IF c.SignatureVersion # "v4" /\ c.SignatureVersion # "v4a"
            THEN << NewError("signature version must be 'v4' or 'v4a', got: "
                                 \o c.SignatureVersion) >>
            ELSE << >>)

\* lines 158-184 of Validate: the errors found, in the order of the checks
ValidateErrors(c) ==
    LET parsedURL == URLParse(c.TargetURL)
    IN  (IF c.TargetURL = ""
         THEN << NewError("target URL is required (set MCP_TARGET_URL or --target-url)") >>
         ELSE IF parsedURL.err # NoErr
         THEN << Wrapf("invalid target URL: ", parsedURL.err, "") >>
         ELSE IF parsedURL.Scheme # "http" /\ parsedURL.Scheme # "https"
         THEN << NewError("target URL must use http or https scheme, got: "
                              \o parsedURL.Scheme) >>
         ELSE << >>)
        \o (IF c.Region = ""
            THEN << NewError("region is required (set AWS_REGION or --region)") >>
            ELSE << >>)
        \o (IF c.ServiceName = ""
            THEN << NewError("service name is required (set AWS_SERVICE_NAME or --service-name)") >>
            ELSE << >>)
        \o (IF c.SignatureVersion # "v4" /\ c.SignatureVersion # "v4a"
            THEN << NewError("signature version must be 'v4' or 'v4a', got: "
                                 \o c.SignatureVersion) >>
            ELSE << >>)

\* Validate that returns at the first rule that is violated
ValidateFirstOnly(c) ==
    IF ValidateErrors(c) = << >> THEN NoErr ELSE ValidateErrors(c)[1]

\* (c *Config) Validate()
Validate(c) == Join(ValidateErrors(c))

\* Validate has not been called
NotValidated == [done |-> FALSE, err |-> NoErr]

\* no signer has been constructed
NoSigner ==
    [variant |-> "", Region |-> "", Service |-> "", AccessKeyID |-> "",
     SecretAccessKey |-> "", SessionToken |-> ""]

(***************************************************************************)
(* internal/config: LoadFromEnv and Load.  The environment is the record   *)
(* of the variables Load reads; the command line is the record of the      *)
(* values flag.Parse leaves in the flag variables (the default of a flag   *)
(* that was not given), with the set of the flags that were given.  A      *)
(* time.Duration is a number of milliseconds.                              *)
(***************************************************************************)
\* strconv.ParseBool(str)
ParseBool(str) ==
    IF str \in {"1", "t", "T", "TRUE", "true", "True"}
    THEN [value |-> TRUE, err |-> NoErr]
    ELSE IF str \in {"0", "f", "F", "FALSE", "false", "False"}
    THEN [value |-> FALSE, err |-> NoErr]
    ELSE [value |-> FALSE,
          err |-> NewError("strconv.ParseBool: parsing \"" \o str \o "\": invalid syntax")]

\* getBoolEnv(key), for the value of the variable
getBoolEnv(value) ==
    IF ParseBool(value).err # NoErr THEN FALSE ELSE ParseBool(value).value

\* the number of decimal digits s begins with
RECURSIVE LeadingDigits(_)
LeadingDigits(s) ==
    IF s # "" /\ IndexOf(Digits, SubSeq(s, 1, 1)) > 0
    THEN 1 + LeadingDigits(SubSeq(s, 2, Len(s)))
    ELSE 0

\* the value of a string of decimal digits
RECURSIVE Atoi(_)
Atoi(s) ==
    IF s = "" THEN 0
    ELSE Atoi(SubSeq(s, 1, Len(s) - 1)) * 10 + (IndexOf(Digits, SubSeq(s, Len(s), Len(s))) - 1)

\* the units of time.ParseDuration from the millisecond up, in milliseconds
DurationUnits ==
    [u \in {"ms", "s", "m", "h"} |->
        IF u = "ms" THEN 1 ELSE IF u = "s" THEN 1000
        ELSE IF u = "m" THEN 60000 ELSE 3600000]

\* time.ParseDuration(s) for "0" and for one unsigned whole number with a
\* unit; anything else of the model's strings is not a duration
ParseDuration(s) ==
    LET n    == LeadingDigits(s)
        unit == SubSeq(s, n + 1, Len(s))
    IN  IF s = "0"
        THEN [value |-> 0, err |-> NoErr]
        ELSE IF n = 0 \/ unit \notin DOMAIN DurationUnits
        THEN [value |-> 0, err |-> NewError("time: invalid duration \"" \o s \o "\"")]
        ELSE [value |-> Atoi(SubSeq(s, 1, n)) * DurationUnits[unit], err |-> NoErr]

\* getDurationEnv(key), for the value of the variable
getDurationEnv(value) ==
    IF ParseDuration(value).err # NoErr THEN 0 ELSE ParseDuration(value).value

\* an environment in which none of the variables is set
NoEnviron ==
    [MCP_TARGET_URL |-> "", AWS_REGION |-> "", AWS_SERVICE_NAME |-> "",
     AWS_SIG_VERSION |-> "", AWS_PROFILE |-> "", MCP_ENABLE_SSE |-> "",
     MCP_TIMEOUT |-> "", MCP_HEADERS |-> ""]

\* a command line without flags: every flag variable holds its default
NoFlags ==
    [targetURL |-> "", region |-> "", serviceName |-> "", sigVersion |-> "",
     profile |-> "", enableSSE |-> FALSE, timeout |-> 0, headers |-> "",
     given |-> {}]

\* lines 55-63 and 138-146: the defaults of signature version and profile
WithDefaults(cfg) ==
    [cfg EXCEPT !.SignatureVersion = IF @ = "" THEN "v4" ELSE @,
                !.Profile = IF @ = "" THEN "default" ELSE @]

\* LoadFromEnv(): the Config is returned with the error of Validate
LoadFromEnv(env) ==
    LET cfg == WithDefaults(
                   [TargetURL        |-> env.MCP_TARGET_URL,
                    Region           |-> env.AWS_REGION,
                    ServiceName      |-> env.AWS_SERVICE_NAME,
                    SignatureVersion |-> env.AWS_SIG_VERSION,
                    Profile          |-> env.AWS_PROFILE,
                    EnableSSE        |-> getBoolEnv(env.MCP_ENABLE_SSE),
                    Timeout          |-> getDurationEnv(env.MCP_TIMEOUT),
                    Headers          |-> env.MCP_HEADERS])
    IN  [cfg |-> cfg, err |-> Validate(cfg)]

\* lines 112-136 of Load: a flag variable that holds more than its zero value
\* replaces the value from the environment
Override(cfg, fl) ==
    [cfg EXCEPT !.TargetURL        = IF fl.targetURL # "" THEN fl.targetURL ELSE @,
                !.Region           = IF fl.region # "" THEN fl.region ELSE @,
                !.ServiceName      = IF fl.serviceName # "" THEN fl.serviceName ELSE @,
                !.SignatureVersion = IF fl.sigVersion # "" THEN fl.sigVersion ELSE @,
                !.Profile          = IF fl.profile # "" THEN fl.profile ELSE @,
                !.EnableSSE        = IF fl.enableSSE THEN fl.enableSSE ELSE @,
                !.Timeout          = IF fl.timeout > 0 THEN fl.timeout ELSE @,
                !.Headers          = IF fl.headers # "" THEN fl.headers ELSE @]

\* Load that returns the configuration without validating it
LoadUnvalidated(env, fl) ==
    LET cfg == WithDefaults(Override(LoadFromEnv(env).cfg, fl))
    IN  [cfg |-> cfg, err |-> NoErr, validated |-> cfg]

\* Load(logger): the Config (NoConfig for nil) and the error; validated is the
\* Config that Validate was called on last
Load(env, fl) ==
    LET cfg == WithDefaults(Override(LoadFromEnv(env).cfg, fl))
    IN  IF Validate(cfg) # NoErr
        THEN [cfg |-> NoConfig, err |-> Validate(cfg), validated |-> cfg]
        ELSE [cfg |-> cfg, err |-> NoErr, validated |-> cfg]

(***************************************************************************)
(* main: the helpers of run, and internal/credentials.                     *)
(***************************************************************************)
\* strings.Split(s, sep) for a separator of one character
RECURSIVE Split(_, _)
Split(s, sep) ==
    IF IndexOf(s, sep) = 0 THEN << s >>
    ELSE << SubSeq(s, 1, IndexOf(s, sep) - 1) >>
             \o Split(SubSeq(s, IndexOf(s, sep) + 1, Len(s)), sep)

\* lines 118-121 of run, from token i on: Headers[pair[0]] = pair[1] for each
\* token; pair[1] of a token without "=" is an index out of range, a panic
RECURSIVE SetHeaders(_, _, _)
SetHeaders(tokens, i, h) ==
    IF i > Len(tokens) THEN [panic |-> FALSE, Headers |-> h]
    ELSE LET pair == Split(tokens[i], "=")
         IN  IF Len(pair) < 2
             THEN [panic |-> TRUE, Headers |-> h]
             ELSE SetHeaders(tokens, i + 1,
                             [k \in DOMAIN h \cup {pair[1]} |->
                                 IF k = pair[1] THEN pair[2] ELSE h[k]])

\* lines 113-122 of run: the Headers map of the signing transport
ParseHeaders(str) ==
    IF str # ""
    THEN SetHeaders(Split(str, ","), 1, [k \in {} |-> ""])
    ELSE [panic |-> FALSE, Headers |-> [k \in {} |-> ""]]

\* maskAccessKey that shows the ends of every key of 8 characters or more
maskAccessKeyFromEight(accessKey) ==
    IF Len(accessKey) < 8 THEN "****"
    ELSE SubSeq(accessKey, 1, 4) \o "****"
             \o SubSeq(accessKey, Len(accessKey) - 3, Len(accessKey))

\* maskAccessKey(accessKey)
maskAccessKey(accessKey) ==
    IF Len(accessKey) <= 8 THEN "****"
    ELSE SubSeq(accessKey, 1, 4) \o "****"
             \o SubSeq(accessKey, Len(accessKey) - 3, Len(accessKey))

\* aws.Credentials{}
NoCreds == [AccessKeyID |-> "", SecretAccessKey |-> "", SessionToken |-> ""]

\* what the SDK's credential chain does for the provider: LoadDefaultConfig
\* fails, Retrieve fails, or Retrieve returns credentials
ProviderOutcomes ==
    [configErr : {NewError("failed to get shared config profile")},
     retrieveErr : {NoErr}, creds : {NoCreds}]
    \cup [configErr : {NoErr},
          retrieveErr : {NewError("no EC2 IMDS role found")}, creds : {NoCreds}]
    \cup [configErr : {NoErr}, retrieveErr : {NoErr},
          creds : [AccessKeyID : AccessKeyIDs, SecretAccessKey : SecretAccessKeys,
                   SessionToken : SessionTokens]]

\* (p *Provider) LoadCredentials(ctx), for the outcome of the chain
LoadCredentials(out) ==
    IF out.configErr # NoErr
    THEN [creds |-> NoCreds, err |-> Wrapf("failed to load AWS config: ", out.configErr, "")]
    ELSE IF out.retrieveErr # NoErr
    THEN [creds |-> NoCreds,
          err |-> Wrapf("failed to retrieve AWS credentials: ", out.retrieveErr, "")]
    ELSE IF out.creds.AccessKeyID = "" \/ out.creds.SecretAccessKey = ""
    THEN [creds |-> NoCreds,
          err |-> NewError("AWS credentials are incomplete: missing access key or secret key")]
    ELSE [creds |-> out.creds, err |-> NoErr]

\* lines 86-105 of run: the signer for the signature version
SelectSigner(cfg, creds) ==
    IF cfg.SignatureVersion \in {"v4", "v4a"}
    THEN [sig |-> [variant         |-> cfg.SignatureVersion,
                   Region          |-> cfg.Region,
                   Service         |-> cfg.ServiceName,
                   AccessKeyID     |-> creds.AccessKeyID,
                   SecretAccessKey |-> creds.SecretAccessKey,
                   SessionToken    |-> creds.SessionToken],
          err |-> NoErr]
    ELSE [sig |-> NoSigner,
          err |-> NewError("unsupported signature version: " \o cfg.SignatureVersion
                               \o " (must be 'v4' or 'v4a')")]

\* no transport.SigningTransport
NoTransport == [created |-> FALSE, TargetURL |-> "", EnableSSE |-> FALSE, Timeout |-> 0]

\* run before config.Load: its locals, its position and what it returns
NoRun ==
    [pc        |-> "load",     \* the next step of run
     cfg       |-> NoConfig,   \* cfg
     creds     |-> NoCreds,    \* creds
     masked    |-> "",         \* the access key as it was logged
     transport |-> NoTransport,\* signingTransport
     ctx       |-> "none",     \* ctx: none, active or canceled
     sigChan   |-> << >>,      \* sigChan, a channel of capacity 1
     handler   |-> "none",     \* the goroutine of lines 62-66
     err       |-> NoErr]      \* the error run returns

\* no Proxy
NoProxy ==
    [pc            |-> "none",  \* the next step of Run
     clientSession |-> "nil",   \* p.clientSession: nil, open or closed
     tools         |-> {},      \* handlers registered on p.server, by name
     resources     |-> {},
     templates     |-> {},
     prompts       |-> {},
     listed        |-> << >>,   \* the kinds setupForwarding asked the target for
     answers       |-> << >>,   \* the answers of the target to the List calls
     events        |-> << >>,   \* the steps of Run, in order
     requests      |-> 0,       \* requests sent to the target
     stdin         |-> "open",  \* the client's end of stdio
     setupErr      |-> NoErr,   \* what setupForwarding returned
     err           |-> NoErr]   \* what Run returned

(***************************************************************************)
(* State.  One RoundTrip call per goroutine of Calls; the signer is the    *)
(* configuration shared by all calls.                                      *)
(***************************************************************************)
\* number of goroutines that may call RoundTrip
NumCalls == 2

Calls == 1..NumCalls

VARIABLES
    signer,       \* rt.Signer: the configuration fixed at construction
    headers,      \* rt.Headers: the static extra headers, fixed as well
    config,       \* the *Config that Validate is called on
    validation,   \* whether Validate has returned, and its error
    pc,           \* pc[c]: position of call c in RoundTrip
    req,          \* req[c]: the *http.Request of call c, mutated in place
    stream,       \* stream[c]: the body stream the caller handed in
    buffer,       \* buffer[c]: the reader RoundTrip puts in place of it
    payloadHash,  \* payloadHash[c]: the local variable of RoundTrip
    ret,          \* ret[c]: what RoundTrip returned, [resp, err]
    entry,        \* entry[c]: the request and the body bytes B at the call
    seen,         \* seen[c]: what the Signer and the underlying transport saw
    environ,      \* the environment variables of the process
    flags,        \* the flag variables after flag.Parse
    run,          \* run of main: its locals, its position, its result
    proxy         \* the Proxy that run creates, and the position of its Run

vars ==
    << signer, headers, config, validation,
       pc, req, stream, buffer, payloadHash, ret, entry, seen,
       environ, flags, run, proxy >>

\* nothing observed yet: no Signer call, no transport call
NothingSeen ==
    [signerCalls    |-> 0,          \* calls of rt.Signer.SignRequest
     signerErr      |-> NoErr,      \* error of the last of them
     signedHash     |-> "",         \* payloadHash argument of the last of them
     signerReq      |-> NoRequest,  \* request argument of it, as handed over
     signTime       |-> NoTime,     \* time.Now() of a signing that succeeded
     events         |-> << >>,      \* the calls made, in order
     transportCalls |-> 0,          \* calls of transport.RoundTrip
     wireBody       |-> << >>,      \* bytes the transport reads from req.Body
     wireLength     |-> 0,          \* req.ContentLength the transport sees
     wireHeader     |-> NoHeader,   \* req.Header the transport sees
     transportOut   |-> [resp |-> NoResponse, err |-> NoErr]]

NoReturn == [resp |-> NoResponse, err |-> NoErr]

\* the calls of RoundTrip have not begun
Idle ==
    /\ pc = [c \in Calls |-> "idle"]
    /\ req = [c \in Calls |-> NoRequest]
    /\ stream = [c \in Calls |-> NilBody]
    /\ buffer = [c \in Calls |-> NilBody]
    /\ payloadHash = [c \in Calls |-> ""]
    /\ ret = [c \in Calls |-> NoReturn]
    /\ entry = [c \in Calls |-> [req |-> NoRequest, body |-> << >>]]
    /\ seen = [c \in Calls |-> NothingSeen]

\* the process has not been started
NotStarted ==
    /\ environ = NoEnviron
    /\ flags = NoFlags
    /\ run = NoRun
    /\ proxy = NoProxy

Init ==
    /\ signer \in Signers
    /\ headers \in ExtraHeaders
    /\ config = NoConfig
    /\ validation = NotValidated
    /\ Idle
    /\ NotStarted

\* the reader req[c].Body points to
BodyOf(c) ==
    IF req[c].Body = "caller" THEN stream[c]
    ELSE IF req[c].Body = "buffer" THEN buffer[c]
    ELSE NilBody

(***************************************************************************)
(* SigningRoundTripper.RoundTrip, in the steps between which other calls   *)
(* may run: the body handling, the call of the Signer, the call of the     *)
(* underlying transport.                                                   *)
(***************************************************************************)
\* the caller invokes rt.RoundTrip(r); body is the caller's stream, if any
Invoke(c, r, body) ==
    /\ pc[c] = "idle"
    /\ pc' = [pc EXCEPT ![c] = "read"]
    /\ req' = [req EXCEPT ![c] = r]
    /\ stream' = [stream EXCEPT ![c] = body]
    /\ buffer' = [buffer EXCEPT ![c] = NilBody]
    /\ payloadHash' = [payloadHash EXCEPT ![c] = ""]
    /\ ret' = [ret EXCEPT ![c] = NoReturn]
    /\ entry' = [entry EXCEPT ![c] = [req |-> r, body |-> body.data]]
    /\ seen' = [seen EXCEPT ![c] = NothingSeen]
    /\ UNCHANGED << environ, flags, run, proxy,
                 signer, headers, config, validation >>

\* a call without a body
InvokeNoBody(c) ==
    \E r \in BodilessRequests : Invoke(c, r, NilBody)

\* a call with body B, readable in full or failing after B was read
InvokeWithBody(c) ==
    \E data \in Bodies, fails \in BOOLEAN :
        \E r \in RequestsWithBody(data) : Invoke(c, r, CallerBody(data, fails))

\* HashBody that leaves the drained stream of the caller as the body
HashBodyKeepsStream(r, b) ==
    IF r.Body # "nil"
    THEN LET rd == ReadAll(b)
         IN  IF rd.err # NoErr
             THEN [err    |-> Wrapf("failed to read request body for signing: ", rd.err, ""),
                   hash   |-> "",
                   old    |-> rd.reader,
                   new    |-> NilBody,
                   req    |-> r]
             ELSE [err    |-> NoErr,
                   hash   |-> EncodeToString(Sum256(rd.data)),
                   old    |-> rd.reader,
                   new    |-> NilBody,
                   req    |-> r]
    ELSE [err  |-> NoErr,
          hash |-> EncodeToString(Sum256(<< >>)),
          old  |-> b,
          new  |-> NilBody,
          req  |-> r]

\* HashBody that hashes what is left of the stream after it was read
HashBodyAfterRead(r, b) ==
    IF r.Body # "nil"
    THEN LET rd == ReadAll(b)
         IN  IF rd.err # NoErr
             THEN [err    |-> Wrapf("failed to read request body for signing: ", rd.err, ""),
                   hash   |-> "",
                   old    |-> rd.reader,
                   new    |-> NilBody,
                   req    |-> r]
             ELSE [err    |-> NoErr,
                   hash   |-> EncodeToString(Sum256(Remaining(rd.reader))),
                   old    |-> Close(rd.reader),
                   new    |-> NopCloserReader(rd.data),
                   req    |-> [r EXCEPT !.Body = "buffer",
                                        !.ContentLength = Len(rd.data)]]
    ELSE [err  |-> NoErr,
          hash |-> EncodeToString(Sum256(<< >>)),
          old  |-> b,
          new  |-> NilBody,
          req  |-> r]

\* HashBody that goes on with the bytes read so far when the read fails
HashBodyIgnoresReadError(r, b) ==
    IF r.Body # "nil"
    THEN LET rd == ReadAll(b)
         IN  [err    |-> NoErr,
              hash   |-> EncodeToString(Sum256(rd.data)),
              old    |-> Close(rd.reader),
              new    |-> NopCloserReader(rd.data),
              req    |-> [r EXCEPT !.Body = "buffer",
                                   !.ContentLength = Len(rd.data)]]
    ELSE [err  |-> NoErr,
          hash |-> EncodeToString(Sum256(<< >>)),
          old  |-> b,
          new  |-> NilBody,
          req  |-> r]

\* HashBody that goes on with a new request, which has the new body but not
\* the headers of the caller
HashBodyDropsHeaders(r, b) ==
    IF r.Body # "nil"
    THEN LET rd == ReadAll(b)
         IN  IF rd.err # NoErr
             THEN [err    |-> Wrapf("failed to read request body for signing: ", rd.err, ""),
                   hash   |-> "",
                   old    |-> rd.reader,
                   new    |-> NilBody,
                   req    |-> r]
             ELSE [err    |-> NoErr,
                   hash   |-> EncodeToString(Sum256(rd.data)),
                   old    |-> Close(rd.reader),
                   new    |-> NopCloserReader(rd.data),
                   req    |-> [r EXCEPT !.Body = "buffer",
                                        !.ContentLength = Len(rd.data),
                                        !.Header = NoHeader]]
    ELSE [err  |-> NoErr,
          hash |-> EncodeToString(Sum256(<< >>)),
          old  |-> b,
          new  |-> NilBody,
          req  |-> r]

\* lines 74-94: read the body, hash it, put a fresh reader in its place
\* the result of the step: the error, or the hash with the new body
HashBody(r, b) ==
    IF r.Body # "nil"
    THEN LET rd == ReadAll(b)
         IN  IF rd.err # NoErr
             THEN [err    |-> Wrapf("failed to read request body for signing: ", rd.err, ""),
                   hash   |-> "",
                   old    |-> rd.reader,
                   new    |-> NilBody,
                   req    |-> r]
             ELSE [err    |-> NoErr,
                   hash   |-> EncodeToString(Sum256(rd.data)),
                   old    |-> Close(rd.reader),
                   new    |-> NopCloserReader(rd.data),
                   req    |-> [r EXCEPT !.Body = "buffer",
                                        !.ContentLength = Len(rd.data)]]
    ELSE [err  |-> NoErr,
          hash |-> EncodeToString(Sum256(<< >>)),
          old  |-> b,
          new  |-> NilBody,
          req  |-> r]

\* ReadBody that keeps the payload hash in one field shared by all calls
ReadBodySharedHash(c) ==
    /\ pc[c] = "read"
    /\ \E out \in {HashBody(req[c], BodyOf(c))} :
           /\ req' = [req EXCEPT ![c] = out.req]
           /\ stream' = [stream EXCEPT ![c] = IF req[c].Body = "caller" THEN out.old ELSE @]
           /\ buffer' = [buffer EXCEPT ![c] = out.new]
           /\ payloadHash' = [d \in Calls |-> out.hash]
           /\ IF out.err # NoErr
              THEN /\ ret' = [ret EXCEPT ![c] = [resp |-> NoResponse, err |-> out.err]]
                   /\ pc' = [pc EXCEPT ![c] = "done"]
              ELSE /\ pc' = [pc EXCEPT ![c] = "sign"]
                   /\ UNCHANGED ret
    /\ UNCHANGED << environ, flags, run, proxy,
                 signer, headers, config, validation, entry, seen >>

ReadBody(c) ==
    /\ pc[c] = "read"
    /\ \E out \in {HashBody(req[c], BodyOf(c))} :
           /\ req' = [req EXCEPT ![c] = out.req]
           /\ stream' = [stream EXCEPT ![c] = IF req[c].Body = "caller" THEN out.old ELSE @]
           /\ buffer' = [buffer EXCEPT ![c] = out.new]
           /\ payloadHash' = [payloadHash EXCEPT ![c] = out.hash]
           /\ IF out.err # NoErr
              THEN /\ ret' = [ret EXCEPT ![c] = [resp |-> NoResponse, err |-> out.err]]
                   /\ pc' = [pc EXCEPT ![c] = "done"]
              ELSE /\ pc' = [pc EXCEPT ![c] = "sign"]
                   /\ UNCHANGED ret
    /\ UNCHANGED << environ, flags, run, proxy,
                 signer, headers, config, validation, entry, seen >>

\* SignStep that sends the request on although the Signer failed
SignStepIgnoresError(s, r, hash, now, sdkFails) ==
    LET out == SignRequest(s, r, hash, now, sdkFails)
    IN  [req |-> out.req, serr |-> out.err, err |-> NoErr]

\* SignStep that formats the signer's error with %v: message kept, cause lost
SignStepNoWrap(s, r, hash, now, sdkFails) ==
    LET out == SignRequest(s, r, hash, now, sdkFails)
    IN  [req  |-> out.req,
         serr |-> out.err,
         err  |-> IF out.err # NoErr
                  THEN NewError("AWS signature generation failed: " \o ErrorMsg(out.err))
                  ELSE NoErr]

\* lines 96-99: sign the request; the outcome of the step
SignStep(s, r, hash, now, sdkFails) ==
    LET out == SignRequest(s, r, hash, now, sdkFails)
    IN  [req  |-> out.req,
         serr |-> out.err,
         err  |-> IF out.err # NoErr
                  THEN Wrapf("AWS signature generation failed: ", out.err, "")
                  ELSE NoErr]

\* Sign that merges the static extra headers after the Signer has signed
SignMergesAfter(c) ==
    /\ pc[c] = "sign"
    /\ \E now \in Times, sdkFails \in BOOLEAN :
         \E out \in {SignStep(signer, req[c], payloadHash[c], now, sdkFails)} :
         \E merged \in {[out.req EXCEPT !.Header = MergeHeaders(@, headers)]} :
             /\ req' = [req EXCEPT ![c] = merged]
             /\ seen' = [seen EXCEPT ![c].signerCalls = @ + 1,
                                     ![c].signerErr = out.serr,
                                     ![c].signedHash = payloadHash[c],
                                     ![c].signerReq = req[c],
                                     ![c].signTime = IF out.serr = NoErr
                                                     THEN now ELSE NoTime,
                                     ![c].events = Append(@, IF out.serr = NoErr
                                                             THEN "signed"
                                                             ELSE "sign failed")]
             /\ IF out.err # NoErr
                THEN /\ ret' = [ret EXCEPT ![c] = [resp |-> NoResponse, err |-> out.err]]
                     /\ pc' = [pc EXCEPT ![c] = "done"]
                ELSE /\ pc' = [pc EXCEPT ![c] = "send"]
                     /\ UNCHANGED ret
    /\ UNCHANGED << environ, flags, run, proxy,
                 signer, headers, config, validation, stream, buffer, payloadHash, entry >>

\* the static extra headers are merged into the request, then lines 96-99
Sign(c) ==
    /\ pc[c] = "sign"
    /\ \E now \in Times, sdkFails \in BOOLEAN :
         \E merged \in {[req[c] EXCEPT !.Header = MergeHeaders(@, headers)]} :
         \E out \in {SignStep(signer, merged, payloadHash[c], now, sdkFails)} :
             /\ req' = [req EXCEPT ![c] = out.req]
             /\ seen' = [seen EXCEPT ![c].signerCalls = @ + 1,
                                     ![c].signerErr = out.serr,
                                     ![c].signedHash = payloadHash[c],
                                     ![c].signerReq = merged,
                                     ![c].signTime = IF out.serr = NoErr
                                                     THEN now ELSE NoTime,
                                     ![c].events = Append(@, IF out.serr = NoErr
                                                             THEN "signed"
                                                             ELSE "sign failed")]
             /\ IF out.err # NoErr
                THEN /\ ret' = [ret EXCEPT ![c] = [resp |-> NoResponse, err |-> out.err]]
                     /\ pc' = [pc EXCEPT ![c] = "done"]
                ELSE /\ pc' = [pc EXCEPT ![c] = "send"]
                     /\ UNCHANGED ret
    /\ UNCHANGED << environ, flags, run, proxy,
                 signer, headers, config, validation, stream, buffer, payloadHash, entry >>

\* Deliver that does not name the host in the error
DeliverNoHost(r, out) ==
    IF out.err # NoErr
    THEN [resp |-> NoResponse,
          err  |-> Wrapf("failed to connect to target MCP server: ", out.err, "")]
    ELSE [resp |-> out.resp, err |-> NoErr]

\* Deliver that turns the HTTP error statuses into errors
DeliverStatusAsError(r, out) ==
    IF out.err # NoErr
    THEN [resp |-> NoResponse,
          err  |-> Wrapf("failed to connect to target MCP server at "
                             \o r.URL.Host \o ": ", out.err, "")]
    ELSE IF out.resp.StatusCode >= 400
    THEN [resp |-> NoResponse, err |-> NewError("target MCP server returned an error status")]
    ELSE [resp |-> out.resp, err |-> NoErr]

\* lines 101-108: what RoundTrip returns for the outcome of the transport
Deliver(r, out) ==
    IF out.err # NoErr
    THEN [resp |-> NoResponse,
          err  |-> Wrapf("failed to connect to target MCP server at "
                             \o r.URL.Host \o ": ", out.err, "")]
    ELSE [resp |-> out.resp, err |-> NoErr]

\* ExecuteWith that tries again when the underlying transport fails
ExecuteRetries(c, out) ==
    /\ pc[c] = "send"
    /\ seen' = [seen EXCEPT ![c].transportCalls = @ + 1,
                            ![c].events = Append(@, "sent"),
                            ![c].wireBody = Remaining(BodyOf(c)),
                            ![c].wireLength = req[c].ContentLength,
                            ![c].wireHeader = req[c].Header,
                            ![c].transportOut = out]
    /\ ret' = [ret EXCEPT ![c] = Deliver(req[c], out)]
    /\ pc' = [pc EXCEPT ![c] = IF out.err # NoErr THEN "send" ELSE "done"]
    /\ stream' = [stream EXCEPT ![c] = IF req[c].Body = "caller"
                                       THEN Close(ReadAll(@).reader) ELSE @]
    /\ buffer' = [buffer EXCEPT ![c] = IF req[c].Body = "buffer"
                                       THEN Close(ReadAll(@).reader) ELSE @]
    /\ UNCHANGED << environ, flags, run, proxy,
                 signer, headers, config, validation, req, payloadHash, entry >>

\* lines 101-108: the underlying transport executes the request, reading and
\* closing req.Body, and returns out, a response or an error
ExecuteWith(c, out) ==
    /\ pc[c] = "send"
    /\ seen' = [seen EXCEPT ![c].transportCalls = @ + 1,
                            ![c].events = Append(@, "sent"),
                            ![c].wireBody = Remaining(BodyOf(c)),
                            ![c].wireLength = req[c].ContentLength,
                            ![c].wireHeader = req[c].Header,
                            ![c].transportOut = out]
    /\ ret' = [ret EXCEPT ![c] = Deliver(req[c], out)]
    /\ stream' = [stream EXCEPT ![c] = IF req[c].Body = "caller"
                                       THEN Close(ReadAll(@).reader) ELSE @]
    /\ buffer' = [buffer EXCEPT ![c] = IF req[c].Body = "buffer"
                                       THEN Close(ReadAll(@).reader) ELSE @]
    /\ pc' = [pc EXCEPT ![c] = "done"]
    /\ UNCHANGED << environ, flags, run, proxy,
                 signer, headers, config, validation, req, payloadHash, entry >>

\* the transport call with any of its outcomes
Execute(c) ==
    \E out \in TransportOutcomes : ExecuteWith(c, out)

\* RoundTrip has returned and the caller has taken the result
Return(c) ==
    /\ pc[c] = "done"
    /\ pc' = [pc EXCEPT ![c] = "idle"]
    /\ req' = [req EXCEPT ![c] = NoRequest]
    /\ stream' = [stream EXCEPT ![c] = NilBody]
    /\ buffer' = [buffer EXCEPT ![c] = NilBody]
    /\ payloadHash' = [payloadHash EXCEPT ![c] = ""]
    /\ ret' = [ret EXCEPT ![c] = NoReturn]
    /\ entry' = [entry EXCEPT ![c] = [req |-> NoRequest, body |-> << >>]]
    /\ seen' = [seen EXCEPT ![c] = NothingSeen]
    /\ UNCHANGED << environ, flags, run, proxy,
                 signer, headers, config, validation >>

(***************************************************************************)
(* Spec: a client that sends its requests one after another, each on the   *)
(* same goroutine.                                                         *)
(***************************************************************************)
Main == CHOOSE c \in Calls : \A d \in Calls : c <= d

Next ==
    \/ InvokeNoBody(Main)
    \/ InvokeWithBody(Main)
    \/ ReadBody(Main)
    \/ Sign(Main)
    \/ Execute(Main)
    \/ Return(Main)

Spec == Init /\ [][Next]_vars

(***************************************************************************)
(* SpecConcurrent: goroutines that call RoundTrip on the one               *)
(* SigningRoundTripper at the same time, their steps interleaved in any    *)
(* order.  The requests are few: no body or a body of one byte.            *)
(***************************************************************************)
\* the signers of the concurrent calls: complete with a session token, the
\* multi-region variant, and one without region
ConcurrentSigners ==
    { s \in Signers :
        /\ s.Service # "" /\ s.AccessKeyID # "" /\ s.SecretAccessKey # ""
        /\ s.SessionToken # ""
        /\ s.Region = "" => s.variant = "v4" }

\* the bodies of the concurrent calls
ConcurrentBodies == { b \in Bodies : Len(b) = 1 }

\* the outcomes of the underlying transport for the concurrent calls
ConcurrentOutcomes ==
    { out \in TransportOutcomes :
        \/ out.err = NewError("dial tcp: connection refused")
        \/ out.err = NoErr /\ out.resp.StatusCode = 200 /\ out.resp.Body # << >> }

InitConcurrent ==
    /\ signer \in ConcurrentSigners
    /\ headers \in ExtraHeaders
    /\ config = NoConfig
    /\ validation = NotValidated
    /\ Idle
    /\ NotStarted

\* a goroutine calls RoundTrip without a body
ConcurrentInvokeNoBody(c) ==
    \E r \in BodilessRequests :
        /\ r.Method = "GET" /\ r.URL.Host = "example.com" /\ r.Header = NoHeader
        /\ Invoke(c, r, NilBody)

\* a goroutine calls RoundTrip with a body that can be read
ConcurrentInvokeWithBody(c) ==
    \E data \in ConcurrentBodies :
        \E r \in RequestsWithBody(data) :
            /\ r.URL.Host = "example.com" /\ r.Header # NoHeader
            /\ r.ContentLength = Len(data)
            /\ Invoke(c, r, CallerBody(data, FALSE))

\* the underlying transport executes the request of a goroutine
ConcurrentExecute(c) ==
    \E out \in ConcurrentOutcomes : ExecuteWith(c, out)

NextConcurrent ==
    \E c \in Calls :
        \/ ConcurrentInvokeNoBody(c)
        \/ ConcurrentInvokeWithBody(c)
        \/ ReadBody(c)
        \/ Sign(c)
        \/ ConcurrentExecute(c)
        \/ Return(c)

SpecConcurrent == InitConcurrent /\ [][NextConcurrent]_vars

(***************************************************************************)
(* SpecConfig: Validate is called on a Config.                             *)
(***************************************************************************)
InitConfig ==
    /\ signer = NoSigner
    /\ headers = NoExtraHeaders
    /\ config \in Configs
    /\ validation = NotValidated
    /\ Idle
    /\ NotStarted

\* err := cfg.Validate()
ValidateConfig ==
    /\ ~validation.done
    /\ validation' = [done |-> TRUE, err |-> Validate(config)]
    /\ UNCHANGED << signer, headers, config, environ, flags, run, proxy,
                    pc, req, stream, buffer, payloadHash, ret, entry, seen >>

NextConfig == ValidateConfig

SpecConfig == InitConfig /\ [][NextConfig]_vars

(***************************************************************************)
(* main: run, from config.Load to its return, with the goroutine that      *)
(* waits for SIGINT and SIGTERM, and internal/proxy: Proxy.Run.  The MCP   *)
(* client and server of the SDK are the environment: the client reaches    *)
(* the target through RoundTrip, and the server on stdio runs until its    *)
(* context is done or the client closes the stream.                        *)
(***************************************************************************)
\* the state of the RoundTrip calls
roundTrips == << pc, req, stream, buffer, payloadHash, ret, entry, seen >>

\* the process has neither returned from run nor panicked
Alive == run.pc \notin {"done", "panic"}

\* lines 38-66: config.Load; on success the context and the signal goroutine
RunLoad ==
    /\ run.pc = "load"
    /\ \E out \in {Load(environ, flags)} :
         /\ config' = out.validated
         /\ validation' = [done |-> TRUE, err |-> out.err]
         /\ run' = IF out.err # NoErr
                   THEN [run EXCEPT !.pc = "done",
                                    !.err = Wrapf("configuration error: ", out.err, "")]
                   ELSE [run EXCEPT !.pc = "credentials",
                                    !.cfg = out.cfg,
                                    !.ctx = "active",
                                    !.handler = "waiting"]
    /\ UNCHANGED << environ, flags, proxy, signer, headers, roundTrips >>

\* the operating system delivers SIGINT or SIGTERM: signal.Notify sends it on
\* sigChan unless the channel is full
Signal ==
    /\ Alive
    /\ run.handler # "none"
    /\ run.sigChan = << >>
    /\ \E sig \in {"interrupt", "terminated"} :
           run' = [run EXCEPT !.sigChan = << sig >>]
    /\ UNCHANGED << environ, flags, proxy, signer, headers, config, validation,
                    roundTrips >>

\* lines 62-66: the goroutine receives the signal and cancels the context
HandleSignal ==
    /\ Alive
    /\ run.handler = "waiting"
    /\ run.sigChan # << >>
    /\ run' = [run EXCEPT !.sigChan = Tail(@), !.handler = "done", !.ctx = "canceled"]
    /\ UNCHANGED << environ, flags, proxy, signer, headers, config, validation,
                    roundTrips >>

\* the error run returns when the credentials cannot be loaded
CredentialsError(err) ==
    Wrapf("failed to load AWS credentials: ", err,
          " (ensure AWS credentials are configured via environment variables, "
              \o "~/.aws/credentials, or IAM role)")

\* RunLoadCredentials that goes on without credentials when the provider fails
RunLoadCredentialsFallback ==
    /\ run.pc = "credentials"
    /\ \E out \in ProviderOutcomes :
         \E res \in {LoadCredentials(out)} :
             run' = [run EXCEPT !.pc = "log", !.creds = res.creds]
    /\ UNCHANGED << environ, flags, proxy, signer, headers, config, validation,
                    roundTrips >>

\* lines 68-78: the credentials are loaded
RunLoadCredentials ==
    /\ run.pc = "credentials"
    /\ \E out \in ProviderOutcomes :
         \E res \in {LoadCredentials(out)} :
             run' = IF res.err # NoErr
                    THEN [run EXCEPT !.pc = "done", !.err = CredentialsError(res.err)]
                    ELSE [run EXCEPT !.pc = "log", !.creds = res.creds]
    /\ UNCHANGED << environ, flags, proxy, signer, headers, config, validation,
                    roundTrips >>

\* lines 80-84: the access key is logged in its masked form
LogAccessKey ==
    /\ run.pc = "log"
    /\ run' = [run EXCEPT !.pc = "signer", !.masked = maskAccessKey(run.creds.AccessKeyID)]
    /\ UNCHANGED << environ, flags, proxy, signer, headers, config, validation,
                    roundTrips >>

\* lines 86-105: the signer is created
RunSelectSigner ==
    /\ run.pc = "signer"
    /\ \E res \in {SelectSigner(run.cfg, run.creds)} :
         IF res.err # NoErr
         THEN /\ run' = [run EXCEPT !.pc = "done", !.err = res.err]
              /\ UNCHANGED signer
         ELSE /\ run' = [run EXCEPT !.pc = "transport"]
              /\ signer' = res.sig
    /\ UNCHANGED << environ, flags, proxy, headers, config, validation, roundTrips >>

\* lines 107-122: the signing transport is created and its Headers are filled
\* from cfg.Headers; a panic ends the process
RunCreateTransport ==
    /\ run.pc = "transport"
    /\ \E parsed \in {ParseHeaders(run.cfg.Headers)} :
         IF parsed.panic
         THEN /\ run' = [run EXCEPT !.pc = "panic"]
              /\ UNCHANGED headers
         ELSE /\ run' = [run EXCEPT !.pc = "proxy",
                                    !.transport = [created   |-> TRUE,
                                                   TargetURL |-> run.cfg.TargetURL,
                                                   EnableSSE |-> run.cfg.EnableSSE,
                                                   Timeout   |-> run.cfg.Timeout]]
              /\ headers' = parsed.Headers
    /\ UNCHANGED << environ, flags, proxy, signer, config, validation, roundTrips >>

\* proxy.New(cfg)
New(transport) ==
    IF ~transport.created
    THEN [proxy |-> NoProxy, err |-> NewError("transport is required")]
    ELSE [proxy |-> [NoProxy EXCEPT !.pc = "connect"], err |-> NoErr]

\* lines 124-139: the proxy is created and its Run is called
RunNewProxy ==
    /\ run.pc = "proxy"
    /\ \E res \in {New(run.transport)} :
         IF res.err # NoErr
         THEN /\ run' = [run EXCEPT !.pc = "done",
                                    !.err = Wrapf("failed to create proxy server: ", res.err, "")]
              /\ UNCHANGED proxy
         ELSE /\ run' = [run EXCEPT !.pc = "run"]
              /\ proxy' = res.proxy
    /\ UNCHANGED << environ, flags, signer, headers, config, validation, roundTrips >>

\* RoundTrip as a function: what a call returns for request r with body data
\* at time now when the underlying transport answers out, and whether the
\* request reached the target
RoundTrip(s, h, r, data, now, out) ==
    LET hashed == HashBody(r, CallerBody(data, FALSE))
        merged == [hashed.req EXCEPT !.Header = MergeHeaders(@, h)]
        signed == SignStep(s, merged, hashed.hash, now, FALSE)
    IN  IF signed.err # NoErr
        THEN [resp |-> NoResponse, err |-> signed.err, sent |-> 0]
        ELSE [resp |-> Deliver(signed.req, out).resp,
              err  |-> Deliver(signed.req, out).err,
              sent |-> 1]

\* the host of a URL without path
HostOf(rawURL) == SubSeq(rawURL, IndexOf(rawURL, ":") + 3, Len(rawURL))

\* what the target does with the first request of the client
ConnectOutcomes ==
    { out \in TransportOutcomes :
        \/ out.err = NewError("dial tcp: connection refused")
        \/ out.err = NoErr /\ out.resp.StatusCode \in {200, 401} /\ out.resp.Body # << >> }

\* p.client.Connect(ctx, p.transport, nil): the client posts its initialize
\* request through the signing client of SigningTransport.Connect; it fails
\* when RoundTrip fails or the target does not answer with status 200
Connect(s, h, transport, now, out) ==
    LET r  == [Method |-> "POST", URL |-> [Host |-> HostOf(transport.TargetURL)],
               Header |-> [k \in {"Content-Type"} |-> << "application/json" >>],
               Body |-> "caller", ContentLength |-> 2]
        rt == RoundTrip(s, h, r, << 123, 125 >>, now, out)
    IN  IF rt.err # NoErr
        THEN [err |-> rt.err, sent |-> rt.sent]
        ELSE IF rt.resp.StatusCode # 200
        THEN [err |-> NewError("calling \"initialize\": rejected by the target"),
              sent |-> rt.sent]
        ELSE [err |-> NoErr, sent |-> rt.sent]

\* the error Run returns when the connect fails
ConnectError(transport, err) ==
    Wrapf("failed to connect to target MCP server at " \o transport.TargetURL \o ": ",
          err,
          " (check network connectivity, AWS credentials, and target server availability)")

\* ProxyConnect that serves on stdio whether or not the connect succeeded
ProxyConnectServesAnyway ==
    /\ proxy.pc = "connect"
    /\ \E out \in ConnectOutcomes, now \in Times :
         \E res \in {Connect(signer, headers, run.transport, now, out)} :
             proxy' = [proxy EXCEPT !.pc = "serve",
                                    !.events = Append(@, "connect"),
                                    !.requests = @ + res.sent,
                                    !.clientSession = IF res.err # NoErr THEN "nil" ELSE "open"]
    /\ UNCHANGED << environ, flags, run, signer, headers, config, validation,
                    roundTrips >>

\* lines 102-115 of Run: connect to the target, keep the session
ProxyConnect ==
    /\ proxy.pc = "connect"
    /\ \E out \in ConnectOutcomes, now \in Times :
         \E res \in {Connect(signer, headers, run.transport, now, out)} :
             proxy' = IF res.err # NoErr
                      THEN [proxy EXCEPT !.pc = "returned",
                                         !.events = Append(@, "connect"),
                                         !.requests = @ + res.sent,
                                         !.err = ConnectError(run.transport, res.err)]
                      ELSE [proxy EXCEPT !.pc = "setup",
                                         !.events = Append(@, "connect"),
                                         !.requests = @ + res.sent,
                                         !.clientSession = "open"]
    /\ UNCHANGED << environ, flags, run, signer, headers, config, validation,
                    roundTrips >>

\* the members of a sequence
Range(seq) == { seq[i] : i \in DOMAIN seq }

\* the answer of the target to one List call: an error or the names listed
ListResults ==
    { [err |-> NewError("Method not found"), names |-> << >>],
      [err |-> NoErr, names |-> << "echo" >>] }

\* the answers to ListTools, ListResources, ListResourceTemplates, ListPrompts
ListOutcomes ==
    [tools : ListResults, resources : ListResults, templates : ListResults,
     prompts : ListResults]

\* the names to register for the answer to a List call
Listed(result) == IF result.err # NoErr THEN {} ELSE Range(result.names)

\* setupForwarding that gives up at the first List call that fails
setupForwardingStopsAtFailure(session, outs) ==
    IF session = "nil"
    THEN [err |-> NewError("not connected to target server"), listed |-> << >>,
          tools |-> {}, resources |-> {}, templates |-> {}, prompts |-> {}]
    ELSE IF outs.tools.err # NoErr
    THEN [err |-> outs.tools.err, listed |-> << "tools" >>,
          tools |-> {}, resources |-> {}, templates |-> {}, prompts |-> {}]
    ELSE IF outs.resources.err # NoErr
    THEN [err |-> outs.resources.err, listed |-> << "tools", "resources" >>,
          tools |-> Listed(outs.tools), resources |-> {}, templates |-> {},
          prompts |-> {}]
    ELSE IF outs.templates.err # NoErr
    THEN [err |-> outs.templates.err,
          listed |-> << "tools", "resources", "templates" >>,
          tools |-> Listed(outs.tools), resources |-> Listed(outs.resources),
          templates |-> {}, prompts |-> {}]
    ELSE IF outs.prompts.err # NoErr
    THEN [err |-> outs.prompts.err,
          listed |-> << "tools", "resources", "templates", "prompts" >>,
          tools |-> Listed(outs.tools), resources |-> Listed(outs.resources),
          templates |-> Listed(outs.templates), prompts |-> {}]
    ELSE [err |-> NoErr,
          listed |-> << "tools", "resources", "templates", "prompts" >>,
          tools |-> Listed(outs.tools), resources |-> Listed(outs.resources),
          templates |-> Listed(outs.templates), prompts |-> Listed(outs.prompts)]

\* (p *Proxy) setupForwarding(ctx), for the answers outs of the target: the
\* error, the kinds asked for, and the handlers registered on p.server
setupForwarding(session, outs) ==
    IF session = "nil"
    THEN [err |-> NewError("not connected to target server"), listed |-> << >>,
          tools |-> {}, resources |-> {}, templates |-> {}, prompts |-> {}]
    ELSE [err |-> NoErr,
          listed |-> << "tools", "resources", "templates", "prompts" >>,
          tools |-> Listed(outs.tools), resources |-> Listed(outs.resources),
          templates |-> Listed(outs.templates), prompts |-> Listed(outs.prompts)]

\* lines 117-120 of Run: setupForwarding; a failure ends Run, which closes
\* the session (line 112)
ProxySetupForwarding ==
    /\ proxy.pc = "setup"
    /\ \E outs \in ListOutcomes :
         \E res \in {setupForwarding(proxy.clientSession, outs)} :
             proxy' = [proxy EXCEPT
                          !.pc = IF res.err # NoErr THEN "returned" ELSE "serve",
                          !.events = Append(@, "setup"),
                          !.listed = res.listed,
                          !.answers = << outs >>,
                          !.requests = @ + Len(res.listed),
                          !.tools = @ \cup res.tools,
                          !.resources = @ \cup res.resources,
                          !.templates = @ \cup res.templates,
                          !.prompts = @ \cup res.prompts,
                          !.setupErr = res.err,
                          !.clientSession = IF res.err # NoErr THEN "closed" ELSE @,
                          !.err = IF res.err # NoErr
                                  THEN Wrapf("failed to setup message forwarding: ",
                                             res.err, "")
                                  ELSE NoErr]
    /\ UNCHANGED << environ, flags, run, signer, headers, config, validation,
                    roundTrips >>

\* lines 122-125 of Run: p.server.Run begins to serve the client on stdio
ProxyServe ==
    /\ proxy.pc = "serve"
    /\ proxy' = [proxy EXCEPT !.pc = "serving", !.events = Append(@, "serve")]
    /\ UNCHANGED << environ, flags, run, signer, headers, config, validation,
                    roundTrips >>

\* the client closes its end of stdio
ClientDisconnects ==
    /\ Alive
    /\ proxy.pc = "serving"
    /\ proxy.stdin = "open"
    /\ proxy' = [proxy EXCEPT !.stdin = "closed"]
    /\ UNCHANGED << environ, flags, run, signer, headers, config, validation,
                    roundTrips >>

\* lines 125-129 of Run: p.server.Run returns, with ctx.Err() when the context
\* is done and with nil when the client has closed the stream, and Run
\* returns, closing the session
ProxyServeEnds ==
    /\ proxy.pc = "serving"
    /\ \/ /\ run.ctx = "canceled"
          /\ proxy' = [proxy EXCEPT !.pc = "returned",
                                    !.clientSession = "closed",
                                    !.err = Wrapf("proxy server failed: ",
                                                  NewError("context canceled"), "")]
       \/ /\ proxy.stdin = "closed"
          /\ proxy' = [proxy EXCEPT !.pc = "returned", !.clientSession = "closed"]
    /\ UNCHANGED << environ, flags, run, signer, headers, config, validation,
                    roundTrips >>

\* RunFinish that reports every error of Run
RunFinishReportsAll ==
    /\ run.pc = "run"
    /\ proxy.pc = "returned"
    /\ run' = IF proxy.err # NoErr
              THEN [run EXCEPT !.pc = "done",
                               !.err = Wrapf("proxy server error: ", proxy.err, "")]
              ELSE [run EXCEPT !.pc = "done"]
    /\ UNCHANGED << environ, flags, proxy, signer, headers, config, validation,
                    roundTrips >>

\* lines 139-149 of run: Run has returned
RunFinish ==
    /\ run.pc = "run"
    /\ proxy.pc = "returned"
    /\ run' = IF proxy.err # NoErr /\ run.ctx # "canceled"
              THEN [run EXCEPT !.pc = "done",
                               !.err = Wrapf("proxy server error: ", proxy.err, "")]
              ELSE [run EXCEPT !.pc = "done"]
    /\ UNCHANGED << environ, flags, proxy, signer, headers, config, validation,
                    roundTrips >>

(***************************************************************************)
(* SpecRun: the process from the start of run to its return or panic,      *)
(* with signals arriving at any time after signal.Notify.                  *)
(***************************************************************************)
\* the values of MCP_HEADERS: none, one pair, two pairs, a token without
\* "=", and a value that holds "="
HeaderLists ==
    {"", "X-Custom-Header=value", "X-A=1,X-B=2", "X-Custom-Header", "X-A=b=c"}

\* the environments the process is started in
RunEnvirons ==
    { [NoEnviron EXCEPT !.MCP_TARGET_URL = "https://example.com",
                        !.AWS_REGION = "us-east-1",
                        !.AWS_SERVICE_NAME = service,
                        !.AWS_SIG_VERSION = version,
                        !.MCP_HEADERS = list] :
        service \in Services, version \in {"", "v4a"}, list \in HeaderLists }

\* nothing has been constructed: no signer, no transport headers, no Config
Unconfigured ==
    /\ signer = NoSigner
    /\ headers = NoExtraHeaders
    /\ config = NoConfig
    /\ validation = NotValidated
    /\ Idle

InitRun ==
    /\ environ \in RunEnvirons
    /\ flags = NoFlags
    /\ run = NoRun
    /\ proxy = NoProxy
    /\ Unconfigured

NextRun ==
    \/ RunLoad
    \/ Signal
    \/ HandleSignal
    \/ RunLoadCredentials
    \/ LogAccessKey
    \/ RunSelectSigner
    \/ RunCreateTransport
    \/ RunNewProxy
    \/ ProxyConnect
    \/ ProxySetupForwarding
    \/ ProxyServe
    \/ ClientDisconnects
    \/ ProxyServeEnds
    \/ RunFinish

SpecRun == InitRun /\ [][NextRun]_vars

\* SpecShutdown: SpecRun with the goroutines scheduled fairly - the signal
\* goroutine runs once a signal is in its channel, the stdio server returns
\* once its context is done, and run goes on once Run has returned
SpecShutdown ==
    /\ InitRun
    /\ [][NextRun]_vars
    /\ WF_vars(HandleSignal)
    /\ WF_vars(ProxyServeEnds)
    /\ WF_vars(RunFinish)

(***************************************************************************)
(* SpecLoad: config.Load on an environment and a command line, and run as  *)
(* far as the choice of the signer.                                        *)
(***************************************************************************)
\* the optional variables of the environment: unset, set, set to values that
\* do not parse
OptionalEnvirons ==
    { [AWS_PROFILE |-> "", MCP_ENABLE_SSE |-> "", MCP_TIMEOUT |-> "", MCP_HEADERS |-> ""],
      [AWS_PROFILE |-> "env-profile", MCP_ENABLE_SSE |-> "true", MCP_TIMEOUT |-> "30s",
       MCP_HEADERS |-> "X-Env=1"],
      [AWS_PROFILE |-> "", MCP_ENABLE_SSE |-> "yes", MCP_TIMEOUT |-> "soon",
       MCP_HEADERS |-> ""] }

LoadEnvirons ==
    { [MCP_TARGET_URL   |-> url,
       AWS_REGION       |-> region,
       AWS_SERVICE_NAME |-> service,
       AWS_SIG_VERSION  |-> version,
       AWS_PROFILE      |-> opt.AWS_PROFILE,
       MCP_ENABLE_SSE   |-> opt.MCP_ENABLE_SSE,
       MCP_TIMEOUT      |-> opt.MCP_TIMEOUT,
       MCP_HEADERS      |-> opt.MCP_HEADERS] :
        url \in {"", "https://env.example.com"}, region \in Regions,
        service \in Services, version \in {"", "v4a", "v5"},
        opt \in OptionalEnvirons }

\* the optional flags: none given, all given, and --sse=false --timeout=0
OptionalFlags ==
    { [profile |-> "", enableSSE |-> FALSE, timeout |-> 0, headers |-> "",
       given |-> {}],
      [profile |-> "flag-profile", enableSSE |-> TRUE, timeout |-> 10000,
       headers |-> "X-Flag=2", given |-> {"profile", "sse", "timeout", "headers"}],
      [profile |-> "", enableSSE |-> FALSE, timeout |-> 0, headers |-> "",
       given |-> {"sse", "timeout"}] }

LoadFlags ==
    { [targetURL   |-> url,
       region      |-> region,
       serviceName |-> service,
       sigVersion  |-> version,
       profile     |-> opt.profile,
       enableSSE   |-> opt.enableSSE,
       timeout     |-> opt.timeout,
       headers     |-> opt.headers,
       given       |-> opt.given
                         \cup (IF url # "" THEN {"target-url"} ELSE {})
                         \cup (IF region # "" THEN {"region"} ELSE {})
                         \cup (IF service # "" THEN {"service-name"} ELSE {})
                         \cup (IF version # "" THEN {"sig-version"} ELSE {})] :
        url \in {"", "http://flag.example.com"}, region \in {"", "eu-west-1"},
        service \in {"", "lambda"}, version \in {"", "v4"},
        opt \in OptionalFlags }

InitLoad ==
    /\ environ \in LoadEnvirons
    /\ flags \in LoadFlags
    /\ run = NoRun
    /\ proxy = NoProxy
    /\ Unconfigured

NextLoad ==
    \/ RunLoad
    \/ RunLoadCredentials
    \/ LogAccessKey
    \/ RunSelectSigner

SpecLoad == InitLoad /\ [][NextLoad]_vars

(***************************************************************************)
(* SpecMask: maskAccessKey is applied to an access key.                    *)
(***************************************************************************)
\* the characters of the access keys
KeyChars == {"A", "7"}

\* the access keys of n characters
RECURSIVE KeysOfLen(_)
KeysOfLen(n) ==
    IF n = 0 THEN {""}
    ELSE { k \o ch : k \in KeysOfLen(n - 1), ch \in KeyChars }

\* the access keys of up to MaxKeyLen characters
AccessKeys == UNION { KeysOfLen(n) : n \in 0..MaxKeyLen }

InitMask ==
    /\ environ = NoEnviron
    /\ flags = NoFlags
    /\ \E key \in AccessKeys :
           run = [NoRun EXCEPT !.pc = "log", !.creds.AccessKeyID = key]
    /\ proxy = NoProxy
    /\ Unconfigured

NextMask == LogAccessKey

SpecMask == InitMask /\ [][NextMask]_vars

(***************************************************************************)
(* Properties of RoundTrip.                                                *)
(***************************************************************************)
\* RoundTrip of call c has returned
Returned(c) == pc[c] = "done"

\* the caller's body stream of call c cannot be read to its end
BodyReadFails(c) == entry[c].req.Body # "nil" /\ stream[c].fails

\* C1: payload preservation - the bytes the underlying transport reads from
\* the request body are exactly the bytes B of the caller's body (none when
\* there was no body), and when the request carried a body the content length
\* the transport sees is the number of bytes of B.
C1_PayloadPreserved ==
    \A c \in Calls :
        seen[c].transportCalls > 0 =>
            /\ seen[c].wireBody = entry[c].body
            /\ entry[c].req.Body # "nil" => seen[c].wireLength = Len(entry[c].body)

\* a body of two bytes or more, of unknown length at the call, was delivered
C1_Witness ==
    \E c \in Calls :
        /\ seen[c].transportCalls > 0
        /\ Len(entry[c].body) >= 2
        /\ entry[c].req.ContentLength = -1
        /\ seen[c].wireBody = entry[c].body

\* the digest of no bytes, in hexadecimal
EmptyPayloadHash == "6a2f"

\* C2: the payload hash handed to the Signer is the hex-encoded digest of the
\* bytes that were in the body before signing, and the digest of the empty
\* byte sequence when the request has no body or an empty one.
C2_PayloadHashOfBody ==
    \A c \in Calls :
        seen[c].signerCalls > 0 =>
            /\ seen[c].signedHash = EncodeToString(Sum256(entry[c].body))
            /\ Len(seen[c].signedHash) = 4
            /\ entry[c].body = << >> => seen[c].signedHash = EmptyPayloadHash
            /\ entry[c].body # << >> => seen[c].signedHash # EmptyPayloadHash

\* the Signer was called with the hash of a body of two bytes
C2_Witness ==
    \E c \in Calls :
        /\ seen[c].signerCalls > 0
        /\ entry[c].body = << 97, 255 >>
        /\ seen[c].signedHash = EncodeToString(Sum256(<< 97, 255 >>))
        /\ seen[c].signedHash # EmptyPayloadHash

\* C3: no request is sent unsigned - every call of the underlying transport
\* comes after a successful call of the Signer on the same request, and a
\* call whose signing failed never reaches the transport.
C3_NeverUnsigned ==
    \A c \in Calls :
        /\ \A i \in 1..Len(seen[c].events) :
              seen[c].events[i] = "sent" =>
                  /\ \E j \in 1..(i - 1) : seen[c].events[j] = "signed"
                  /\ \A j \in 1..(i - 1) : seen[c].events[j] # "sign failed"
        /\ pc[c] = "send" => seen[c].signerCalls > 0 /\ seen[c].signerErr = NoErr
        /\ seen[c].signerErr # NoErr => seen[c].transportCalls = 0
        /\ seen[c].transportCalls > 0 =>
              "Authorization" \in DOMAIN seen[c].wireHeader

\* a signed request was sent
C3_Witness ==
    \E c \in Calls : seen[c].events = << "signed", "sent" >>

\* C4: when reading the body fails, RoundTrip returns no response and an
\* error saying "failed to read request body for signing", and neither the
\* Signer nor the underlying transport is called for the request.
C4_BodyReadFailure ==
    \A c \in Calls :
        BodyReadFails(c) =>
            /\ seen[c].signerCalls = 0
            /\ seen[c].transportCalls = 0
            /\ pc[c] \in {"read", "done"}
            /\ Returned(c) =>
                  /\ ret[c].resp = NoResponse
                  /\ ret[c].err # NoErr
                  /\ Contains(ErrorMsg(ret[c].err), "failed to read request body for signing")

\* RoundTrip returned for a body whose read failed after some bytes
C4_Witness ==
    \E c \in Calls :
        BodyReadFails(c) /\ Returned(c) /\ Len(entry[c].body) > 0 /\ ret[c].err # NoErr

\* C5: when the Signer fails, RoundTrip returns no response and an error that
\* says "AWS signature generation failed", includes the signer's message and
\* wraps the signer's error, and the underlying transport is not called.
C5_SigningFailure ==
    \A c \in Calls :
        seen[c].signerErr # NoErr =>
            /\ seen[c].transportCalls = 0
            /\ Returned(c)
            /\ ret[c].resp = NoResponse
            /\ ret[c].err # NoErr
            /\ Contains(ErrorMsg(ret[c].err), "AWS signature generation failed")
            /\ Contains(ErrorMsg(ret[c].err), ErrorMsg(seen[c].signerErr))
            /\ ErrorsIs(ret[c].err, seen[c].signerErr)

\* RoundTrip returned after the multi-region signer reported that it is not
\* available
C5_Witness ==
    \E c \in Calls :
        /\ Returned(c)
        /\ signer.variant = "v4a"
        /\ ErrorsIs(seen[c].signerErr, ErrV4aNotAvailable)
        /\ ErrorsIs(ret[c].err, ErrV4aNotAvailable)
        /\ seen[c].transportCalls = 0

\* C6: no retry - in one RoundTrip the Signer is called at most once and the
\* underlying transport at most once, also when the transport fails.
C6_NoRetry ==
    \A c \in Calls :
        /\ seen[c].signerCalls <= 1
        /\ seen[c].transportCalls <= 1
        /\ Returned(c) /\ seen[c].transportOut.err # NoErr =>
              seen[c].signerCalls = 1 /\ seen[c].transportCalls = 1

\* RoundTrip returned after the underlying transport failed
C6_Witness ==
    \E c \in Calls :
        /\ Returned(c)
        /\ seen[c].transportOut.err # NoErr
        /\ seen[c].transportCalls = 1

\* C7: when the underlying transport returns an error, RoundTrip returns no
\* response and an error that says "failed to connect to target MCP server",
\* names the host of the request URL and wraps the transport's error.
C7_TransportError ==
    \A c \in Calls :
        (Returned(c) /\ seen[c].transportOut.err # NoErr) =>
            /\ ret[c].resp = NoResponse
            /\ ret[c].err # NoErr
            /\ Contains(ErrorMsg(ret[c].err), "failed to connect to target MCP server")
            /\ Contains(ErrorMsg(ret[c].err), entry[c].req.URL.Host)
            /\ Contains(ErrorMsg(ret[c].err), ErrorMsg(seen[c].transportOut.err))
            /\ ErrorsIs(ret[c].err, seen[c].transportOut.err)

\* the connection to localhost:59999 was refused
C7_Witness ==
    \E c \in Calls :
        /\ Returned(c)
        /\ seen[c].transportOut.err = NewError("dial tcp: connection refused")
        /\ entry[c].req.URL.Host = "localhost:59999"
        /\ Contains(ErrorMsg(ret[c].err), "localhost:59999")

\* C8: when the underlying transport returns a response, RoundTrip returns
\* that response unchanged and no error, whatever the HTTP status.
C8_ResponseUnmodified ==
    \A c \in Calls :
        (Returned(c) /\ seen[c].transportCalls > 0 /\ seen[c].transportOut.err = NoErr) =>
            /\ ret[c].resp = seen[c].transportOut.resp
            /\ ret[c].err = NoErr

\* a response with status 503 and a body was returned to the caller
C8_Witness ==
    \E c \in Calls :
        /\ Returned(c)
        /\ seen[c].transportOut.resp.StatusCode = 503
        /\ ret[c].resp = [StatusCode |-> 503, Body |-> << 123, 125 >>]

(***************************************************************************)
(* Properties of the signers.                                              *)
(***************************************************************************)
\* which precondition an error of SignRequest reports, "none" for the others
ValidationKind(err) ==
    IF err = NoErr THEN "none"
    ELSE IF Contains(ErrorMsg(err), "region is required") THEN "region"
    ELSE IF Contains(ErrorMsg(err), "service name is required") THEN "service"
    ELSE IF Contains(ErrorMsg(err), "AWS credentials are required") THEN "credentials"
    ELSE "none"

\* the first precondition signer s violates in the order region, service
\* name, credentials
FirstViolation(s) ==
    IF s.Region = "" THEN "region"
    ELSE IF s.Service = "" THEN "service"
    ELSE IF s.AccessKeyID = "" \/ s.SecretAccessKey = "" THEN "credentials"
    ELSE "none"

\* C9: V4Signer and V4aSigner check region, then service name, then
\* credentials: for the configuration in use both variants agree on whether
\* validation fails, the error is that of the first failing check in that
\* order, and a failed validation leaves the request without signature headers.
C9_ValidationOrder ==
    \A c \in Calls :
        seen[c].signerCalls > 0 =>
            LET v4  == V4SignRequest(signer, entry[c].req, seen[c].signedHash,
                                     CHOOSE t \in Times : TRUE, FALSE)
                v4a == V4aSignRequest(signer, entry[c].req, seen[c].signedHash)
            IN  /\ ValidationKind(seen[c].signerErr) = FirstViolation(signer)
                /\ ValidationKind(v4.err) = FirstViolation(signer)
                /\ ValidationKind(v4a.err) = FirstViolation(signer)
                /\ FirstViolation(signer) # "none" =>
                      /\ v4.req = entry[c].req
                      /\ v4a.req = entry[c].req
                      /\ req[c].Header = seen[c].signerReq.Header
                      /\ "Authorization" \notin DOMAIN req[c].Header
                      /\ "X-Amz-Date" \notin DOMAIN req[c].Header

\* the multi-region signer was called with neither region nor service name
C9_Witness ==
    \E c \in Calls :
        /\ seen[c].signerCalls > 0
        /\ signer.variant = "v4a"
        /\ signer.Region = ""
        /\ signer.Service = ""
        /\ ValidationKind(seen[c].signerErr) = "region"

JustSigned(c) == seen[c].signerCalls > 0 /\ seen[c].transportCalls = 0

C14_SessionTokenHeader ==
    \A c \in Calls :
        (seen[c].signerCalls > 0 /\ seen[c].signerErr = NoErr) =>
            /\ signer.SessionToken # "" =>
                  /\ HeaderValues(req[c].Header, "X-Amz-Security-Token")
                         = << signer.SessionToken >>
                  /\ seen[c].transportCalls > 0 =>
                        HeaderGet(seen[c].wireHeader, "X-Amz-Security-Token")
                            = signer.SessionToken
            /\ signer.SessionToken = "" =>
                  /\ "X-Amz-Security-Token" \notin DOMAIN req[c].Header
                  /\ seen[c].transportCalls > 0 =>
                        "X-Amz-Security-Token" \notin DOMAIN seen[c].wireHeader

\* a request signed with a session token has been sent
C14_Witness ==
    \E c \in Calls :
        /\ seen[c].transportCalls > 0
        /\ signer.SessionToken = "TOKEN123"
        /\ HeaderGet(seen[c].wireHeader, "X-Amz-Security-Token") = "TOKEN123"

\* s has the form YYYYMMDDTHHMMSSZ: eight digits, T, six digits, Z
AmzDateForm(s) ==
    /\ Len(s) = 16
    /\ \A i \in 1..16 :
          IF i = 9 THEN SubSeq(s, i, i) = "T"
          ELSE IF i = 16 THEN SubSeq(s, i, i) = "Z"
          ELSE IndexOf(Digits, SubSeq(s, i, i)) > 0

\* C15: a successful single-region signing leaves on the request an
\* Authorization header that names the algorithm AWS4-HMAC-SHA256 and
\* contains "<region>/<service>/aws4_request" for the configured region and
\* service, and a non-empty X-Amz-Date header of the form YYYYMMDDTHHMMSSZ
\* that is the time the clock gave at the signing.
C15_AuthorizationAndDate ==
    \A c \in Calls :
        (seen[c].signerCalls > 0 /\ seen[c].signerErr = NoErr) =>
            LET auth == HeaderGet(req[c].Header, "Authorization")
                date == HeaderGet(req[c].Header, "X-Amz-Date")
                t    == seen[c].signTime
            IN  /\ signer.variant = "v4"
                /\ signer.Region # "" /\ signer.Service # ""
                /\ HasPrefix(auth, "AWS4-HMAC-SHA256 ")
                /\ Contains(auth, signer.Region \o "/" \o signer.Service
                                      \o "/aws4_request")
                /\ date # ""
                /\ AmzDateForm(date)
                /\ t \in Times
                /\ date = FormatAmzDate(t)
                /\ t.year = 2024 => date = "20240101T000000Z"
                /\ t.year = 2025 => date = "20251231T235907Z"
                /\ Contains(auth, "/" \o SubSeq(date, 1, 8) \o "/" \o signer.Region)
                /\ Len(req[c].Header["Authorization"]) = 1
                /\ Len(req[c].Header["X-Amz-Date"]) = 1

\* a request was signed on the last day of 2025, seven seconds into the last
\* minute
C15_Witness ==
    \E c \in Calls :
        /\ seen[c].signerCalls > 0 /\ seen[c].signerErr = NoErr
        /\ seen[c].signTime.year = 2025
        /\ HeaderGet(req[c].Header, "X-Amz-Date") = "20251231T235907Z"
        /\ Contains(HeaderGet(req[c].Header, "Authorization"),
                    "20251231/us-east-1/execute-api/aws4_request")

\* signers s and t agree on the region, the service name and the two keys
SameValidationInputs(s, t) ==
    /\ s.Region = t.Region /\ s.Service = t.Service
    /\ s.AccessKeyID = t.AccessKeyID /\ s.SecretAccessKey = t.SecretAccessKey

\* C16: the validation outcome of SignRequest - whether it passes, and which
\* validation error is returned - depends only on the signer's region,
\* service name and credential keys: a call of a signer that agrees with the
\* one in use on those has the same outcome, whatever the request, the
\* payload hash, the time, the session token or the calls made before.
C16_ValidationDependsOnConfigOnly ==
    \A c \in Calls :
        JustSigned(c) =>
            \A s \in Signers :
                SameValidationInputs(s, signer) =>
                    /\ \A r \in {seen[c].signerReq, NoRequest},
                          h \in {seen[c].signedHash, "UNSIGNED-PAYLOAD"},
                          now \in Times :
                           LET err == SignRequest(s, r, h, now, TRUE).err
                           IN  /\ ValidationKind(err)
                                   = ValidationKind(seen[c].signerErr)
                               /\ ValidationKind(err) = FirstViolation(signer)
                               /\ (s.variant = signer.variant
                                       /\ ValidationKind(err) # "none") =>
                                     err = seen[c].signerErr
                    /\ \A now \in Times :
                           LET err == SignRequest(s, NoRequest, "UNSIGNED-PAYLOAD",
                                                  now, FALSE).err
                           IN  /\ ValidationKind(err)
                                   = ValidationKind(seen[c].signerErr)
                               /\ (err = NoErr) <=>
                                     (s.variant = "v4"
                                          /\ FirstViolation(signer) = "none")

\* a signer with a session token and no service name has been called, with
\* the hash of a body
C16_Witness ==
    \E c \in Calls :
        /\ JustSigned(c)
        /\ signer.SessionToken # ""
        /\ signer.Region # "" /\ signer.Service = ""
        /\ ValidationKind(seen[c].signerErr) = "service"
        /\ seen[c].signedHash # EmptyPayloadHash

(***************************************************************************)
(* Properties of the static extra headers.                                 *)
(***************************************************************************)
\* header h has v among the values of k
HasPair(h, k, v) ==
    \E i \in 1..Len(HeaderValues(h, k)) : HeaderValues(h, k)[i] = v

SignatureHeaders == {"Authorization", "X-Amz-Date", "X-Amz-Security-Token"}

\* header h has, for every name but those of the signature headers, the
\* values header h0 has, first and in the same order
KeepsHeaders(h, h0) ==
    \A k \in (DOMAIN h0) \ SignatureHeaders :
        /\ k \in DOMAIN h
        /\ Len(h[k]) >= Len(h0[k])
        /\ SubSeq(h[k], 1, Len(h0[k])) = h0[k]
        /\ HeaderGet(h, k) = HeaderGet(h0, k)

Slot(c) ==
    << pc[c], req[c], stream[c], buffer[c], payloadHash[c], ret[c], entry[c],
       seen[c] >>

\* call c works on its own request: the hash it holds and the hash the Signer
\* got are those of its own body, the request the Signer got is its own, and
\* the underlying transport got its own body and headers
OwnRequest(c) ==
    /\ pc[c] \in {"sign", "send"} =>
          payloadHash[c] = EncodeToString(Sum256(entry[c].body))
    /\ seen[c].signerCalls > 0 =>
          /\ seen[c].signedHash = EncodeToString(Sum256(entry[c].body))
          /\ seen[c].signerReq.Method = entry[c].req.Method
          /\ seen[c].signerReq.URL = entry[c].req.URL
          /\ KeepsHeaders(seen[c].signerReq.Header, entry[c].req.Header)
    /\ seen[c].transportCalls > 0 =>
          /\ seen[c].wireBody = entry[c].body
          /\ KeepsHeaders(seen[c].wireHeader, entry[c].req.Header)
          /\ (DOMAIN seen[c].wireHeader) \ (DOMAIN entry[c].req.Header)
                 \subseteq SignatureHeaders \cup DOMAIN headers
          /\ HeaderGet(seen[c].wireHeader, "X-Amz-Date")
                 = FormatAmzDate(seen[c].signTime)

\* C19: any interleaving of concurrent RoundTrip calls on one
\* SigningRoundTripper and Signer is safe - every step leaves the shared
\* configuration (credential, region, service, extra headers) as it is and
\* touches the request of one call only, and after it each call is signed
\* with the payload hash of its own body and delivered with its own body and
\* headers.
C19_ConcurrentCallsSafe ==
    [][ /\ signer' = signer
        /\ headers' = headers
        /\ \A c, d \in Calls : (c # d /\ Slot(c)' # Slot(c)) => Slot(d)' = Slot(d)
        /\ \A c \in Calls : OwnRequest(c)' ]_vars

\* two calls with different bodies are in flight at once, both delivered,
\* each with its own body
C19_Witness ==
    \E c, d \in Calls :
        /\ c # d
        /\ pc[c] = "done" /\ pc[d] = "done"
        /\ seen[c].transportCalls > 0 /\ seen[d].transportCalls > 0
        /\ entry[c].body # entry[d].body
        /\ entry[c].body # << >> /\ entry[d].body # << >>
        /\ seen[c].wireBody = entry[c].body
        /\ seen[d].wireBody = entry[d].body
        /\ seen[c].signedHash # seen[d].signedHash

(***************************************************************************)
(* Properties of Config.Validate (SpecConfig).                             *)
(***************************************************************************)
\* u begins with the scheme http or https, in letters of either case
HasHTTPScheme(u) ==
    \/ HasPrefix(ToLower(u), "http://")
    \/ HasPrefix(ToLower(u), "https://")

MessageOf(err) == IF err = NoErr THEN "" ELSE ErrorMsg(err)

\* C21: Config.Validate reports every violated rule, not only the first - when
\* several of target URL, region, service name and signature version are
\* missing or invalid, the returned error contains the message of each.
C21_ValidateReportsAll ==
    validation.done =>
        LET msg == MessageOf(validation.err)
        IN  /\ config.TargetURL = "" =>
                  Contains(msg, "target URL is required (set MCP_TARGET_URL or --target-url)")
            /\ (config.TargetURL # "" /\ ~HasHTTPScheme(config.TargetURL)) =>
                  \/ Contains(msg, "invalid target URL: parse \"" \o config.TargetURL \o "\"")
                  \/ Contains(msg, "target URL must use http or https scheme, got: ")
            /\ config.Region = "" =>
                  Contains(msg, "region is required (set AWS_REGION or --region)")
            /\ config.ServiceName = "" =>
                  Contains(msg, "service name is required (set AWS_SERVICE_NAME or --service-name)")
            /\ config.SignatureVersion \notin {"v4", "v4a"} =>
                  Contains(msg, "signature version must be 'v4' or 'v4a', got: "
                                    \o config.SignatureVersion)

\* Validate has returned for a configuration that breaks all four rules
C21_Witness ==
    /\ validation.done
    /\ validation.err # NoErr
    /\ config.TargetURL = "ftp://example.com"
    /\ config.Region = ""
    /\ config.ServiceName = ""
    /\ config.SignatureVersion = "v5"

(***************************************************************************)
(* Properties of Load, run and Proxy.Run.                                  *)
(***************************************************************************)
\* Load has returned a configuration to run
Loaded == run.pc # "load" /\ validation.err = NoErr

\* C22: command-line flags take precedence over environment variables - for
\* every parameter (target URL, region, service name, signature version,
\* profile, SSE, timeout, headers) that is given both by flag and by
\* environment variable, the configuration returned by Load holds the value
\* of the flag.
C22_FlagsTakePrecedence ==
    Loaded =>
        /\ ("target-url" \in flags.given /\ environ.MCP_TARGET_URL # "") =>
              run.cfg.TargetURL = flags.targetURL
        /\ ("region" \in flags.given /\ environ.AWS_REGION # "") =>
              run.cfg.Region = flags.region
        /\ ("service-name" \in flags.given /\ environ.AWS_SERVICE_NAME # "") =>
              run.cfg.ServiceName = flags.serviceName
        /\ ("sig-version" \in flags.given /\ environ.AWS_SIG_VERSION # "") =>
              run.cfg.SignatureVersion = flags.sigVersion
        /\ ("profile" \in flags.given /\ environ.AWS_PROFILE # "") =>
              run.cfg.Profile = flags.profile
        /\ ("sse" \in flags.given /\ environ.MCP_ENABLE_SSE # "") =>
              run.cfg.EnableSSE = flags.enableSSE
        /\ ("timeout" \in flags.given /\ environ.MCP_TIMEOUT # "") =>
              run.cfg.Timeout = flags.timeout
        /\ ("headers" \in flags.given /\ environ.MCP_HEADERS # "") =>
              run.cfg.Headers = flags.headers

\* the number of times ch stands in s
RECURSIVE Count(_, _)
Count(s, ch) ==
    IF s = "" THEN 0
    ELSE (IF SubSeq(s, 1, 1) = ch THEN 1 ELSE 0) + Count(SubSeq(s, 2, Len(s)), ch)

\* every entry of a header list has the form key=value
WellFormed(list) ==
    list # "" => \A i \in DOMAIN Split(list, ",") : Count(Split(list, ",")[i], "=") = 1

\* the map holds each entry of the list as it was written
HoldsEntries(h, list) ==
    list # "" =>
        \A i \in DOMAIN Split(list, ",") :
            \E k \in DOMAIN h : Split(list, ",")[i] = k \o "=" \o h[k]

\* C23: the configuration consumed by the core is validated before first
\* use - an invalid value, a malformed extra-header entry such as one without
\* "=" included, makes startup fail with a returned error: run never panics,
\* and a signing transport is only ever created from a well-formed header
\* list, with headers that are the entries as written.
C23_ConfigValidatedBeforeUse ==
    /\ run.pc # "panic"
    /\ run.transport.created =>
          /\ WellFormed(run.cfg.Headers)
          /\ HoldsEntries(headers, run.cfg.Headers)
          /\ run.cfg.SignatureVersion \in {"v4", "v4a"}
          /\ run.cfg.Region # ""
          /\ run.cfg.ServiceName # ""

\* C24: the access-key mask shows the first 4 and the last 4 characters
\* around "****" for a key of more than 8 characters, and is "****" alone
\* for every key of 8 characters or fewer, the empty key included.
C24_MaskAccessKey ==
    run.pc = "signer" =>
        LET key == run.creds.AccessKeyID
        IN  /\ Len(key) > 8 =>
                  /\ Len(run.masked) = 12
                  /\ SubSeq(run.masked, 1, 4) = SubSeq(key, 1, 4)
                  /\ SubSeq(run.masked, 5, 8) = "****"
                  /\ SubSeq(run.masked, 9, 12) = SubSeq(key, Len(key) - 3, Len(key))
            /\ Len(key) <= 8 => run.masked = "****"

\* a key of 9 characters has been masked
C24_Witness ==
    /\ run.pc = "signer"
    /\ run.creds.AccessKeyID = "A7A7AA777"
    /\ run.masked = "A7A7****A777"

\* run has returned because the credentials could not be loaded
CredentialsFailed ==
    HasPrefix(MessageOf(run.err), "failed to load AWS credentials: ")

\* C25: a failure of the credential provider is fatal to startup and there
\* is no fallback signing mode - when LoadCredentials fails run returns an
\* error and neither signer nor signing transport nor proxy is created, so
\* that no request is sent to the target; run goes past the loading of the
\* credentials only with an access key and a secret key.
C25_CredentialFailureIsFatal ==
    /\ CredentialsFailed =>
          /\ run.pc = "done"
          /\ run.creds = NoCreds
          /\ signer = NoSigner
          /\ ~run.transport.created
          /\ proxy = NoProxy
          /\ \A c \in Calls : seen[c].transportCalls = 0
    /\ (\/ run.pc \in {"log", "signer", "transport", "proxy", "run", "panic"}
        \/ signer # NoSigner
        \/ run.transport.created
        \/ proxy # NoProxy) =>
          /\ run.creds.AccessKeyID # ""
          /\ run.creds.SecretAccessKey # ""
          /\ ~CredentialsFailed

\* run has returned because the credentials could not be retrieved
C25_Witness ==
    /\ run.pc = "done"
    /\ HasPrefix(MessageOf(run.err),
                 "failed to load AWS credentials: failed to retrieve AWS credentials: ")

\* a signal is in the channel while the proxy serves its client
SignalledWhileServing == run.sigChan # << >> /\ proxy.pc = "serving"

IsPrefix(s, t) == Len(s) <= Len(t) /\ SubSeq(t, 1, Len(s)) = s

\* C27: Proxy.Run performs its steps in order - connect to the target, then
\* discover and register the forwarding handlers, then serve on stdio; the
\* server on stdio starts only after the connect has succeeded and
\* setupForwarding has returned, and a connect that fails makes Run return
\* an error that names the target URL.
C27_RunStepsInOrder ==
    /\ IsPrefix(proxy.events, << "connect", "setup", "serve" >>)
    /\ (proxy.pc \in {"serve", "serving"} \/ "serve" \in Range(proxy.events)) =>
          /\ IsPrefix(<< "connect", "setup" >>, proxy.events)
          /\ proxy.clientSession # "nil"
          /\ proxy.setupErr = NoErr
          /\ Len(proxy.answers) = 1
    /\ (proxy.pc = "returned" /\ proxy.clientSession = "nil") =>
          /\ proxy.events = << "connect" >>
          /\ proxy.err # NoErr
          /\ Contains(MessageOf(proxy.err),
                      "failed to connect to target MCP server at "
                          \o run.transport.TargetURL)

\* Run has returned the error of a connect that the target refused
C27_Witness ==
    /\ proxy.pc = "returned"
    /\ proxy.events = << "connect" >>
    /\ Contains(MessageOf(proxy.err), "at https://example.com: ")
    /\ Contains(MessageOf(proxy.err), "connection refused")

\* C28: capability discovery tolerates partial failure - a failure to list
\* one kind (tools, resources, resource templates, prompts) does not keep
\* the other kinds from being listed and registered, and setupForwarding
\* still returns success; it fails only when there is no client session.
C28_DiscoveryToleratesFailure ==
    /\ proxy.setupErr # NoErr => proxy.clientSession = "nil"
    /\ "setup" \in Range(proxy.events) =>
          /\ proxy.setupErr = NoErr
          /\ proxy.listed = << "tools", "resources", "templates", "prompts" >>
          /\ \A outs \in Range(proxy.answers) :
                 /\ proxy.tools = Listed(outs.tools)
                 /\ proxy.resources = Listed(outs.resources)
                 /\ proxy.templates = Listed(outs.templates)
                 /\ proxy.prompts = Listed(outs.prompts)
                 /\ outs.tools.err = NoErr => proxy.tools = {"echo"}
                 /\ outs.prompts.err = NoErr => proxy.prompts = {"echo"}

\* the listing of tools and templates failed, resources and prompts are
\* registered and the proxy serves
C28_Witness ==
    /\ proxy.pc = "serving"
    /\ proxy.tools = {}
    /\ proxy.templates = {}
    /\ proxy.resources = {"echo"}
    /\ proxy.prompts = {"echo"}
    /\ \E outs \in Range(proxy.answers) :
           outs.tools.err # NoErr /\ outs.templates.err # NoErr

\* C29: on every path through RoundTrip on which the request carried a body,
\* the body stream of the caller is closed exactly once before RoundTrip
\* returns, also when reading the body fails.
C29_CallerBodyClosedOnce ==
    \A c \in Calls :
        (Returned(c) /\ entry[c].req.Body # "nil") => stream[c].closed = 1

=============================================================================
